---- MODULE Spec2Model ----
(***************************************************************************)
(* Pulsarr / BookArr backend: the Audiobookshelf import pipeline           *)
(* (import_bookshelf.py), the auto-sync scheduler (autosync.py) and the    *)
(* relational store they write (models.py), as a state machine.            *)
(*                                                                         *)
(* Strings are sequences of one-character strings, so that strip(), the    *)
(* case folding and the ILIKE pattern match are computed, not assumed.     *)
(* Python's None is the value None below; an absent row id is 0.           *)
(***************************************************************************)
EXTENDS Integers, Sequences, FiniteSets, TLC

\* ------------------------------------------------------------------ bounds
\* longest batch handed to import_bookshelf_items
MaxBatch == 2
\* calls of the /library/import/bookshelf endpoint in one behaviour
MaxImports == 2
\* sync cycles (scheduled or manual) begun in one behaviour
MaxCycles == 2

\* ------------------------------------------------------------------ values
None == <<"None">>

S_empty == <<>>
S_ab == <<"a", "b">>
S_AB == <<"A", "B">>
S_ac == <<"a", "c">>
S_a_ == <<"a", "_">>
S_axb == <<"a", "\\", "b">>
S_Axb == <<"A", "\\", "b">>
S_sp_ab == <<" ", "a", "b">>
C_1 == <<"1">>
C_2 == <<"2">>

\* str.lower() / the case folding of ILIKE, on the model's alphabet
Lower(c) == IF c = "A" THEN "a" ELSE IF c = "B" THEN "b" ELSE c

LowerStr(s) == [i \in 1..Len(s) |-> Lower(s[i])]

\* two strings that differ at most in letter case
SameIgnoringCase(x, y) == LowerStr(x) = LowerStr(y)

RECURSIVE LStrip(_)
LStrip(s) == IF s # <<>> /\ Head(s) = " " THEN LStrip(Tail(s)) ELSE s

RECURSIVE RStrip(_)
RStrip(s) ==
    IF s # <<>> /\ s[Len(s)] = " " THEN RStrip(SubSeq(s, 1, Len(s) - 1)) ELSE s

\* str.strip()
Strip(s) == RStrip(LStrip(s))

\* Python truthiness of an Optional[str] or a list
Truthy(v) == v # None /\ v # <<>>

\* column ILIKE pattern on PostgreSQL (config.py builds a postgresql:// URL):
\* % matches any run of characters, _ any one character, a backslash makes
\* the next pattern character literal, everything else matches ignoring case.
RECURSIVE LikeFrom(_, _, _, _)
LikeFrom(s, i, p, j) ==
    IF j > Len(p) THEN i > Len(s)
    ELSE IF p[j] = "%" THEN
        LikeFrom(s, i, p, j + 1) \/ (i <= Len(s) /\ LikeFrom(s, i + 1, p, j))
    ELSE IF p[j] = "_" THEN
        i <= Len(s) /\ LikeFrom(s, i + 1, p, j + 1)
    ELSE IF p[j] = "\\" THEN
        /\ j + 1 <= Len(p)
        /\ i <= Len(s)
        /\ Lower(s[i]) = Lower(p[j + 1])
        /\ LikeFrom(s, i + 1, p, j + 2)
    ELSE
        /\ i <= Len(s)
        /\ Lower(s[i]) = Lower(p[j])
        /\ LikeFrom(s, i + 1, p, j + 1)

ILike(value, pattern) == LikeFrom(value, 1, pattern, 1)

\* ------------------------------------------------------------------ threads
\* request threads of the web server, and the threads start_autosync_thread
\* creates
Callers == {"c1"}
\* requests to the control endpoints that are served at the same time
Requests == {"c1", "c2"}
Workers == {"w1", "w2"}
Threads == Requests \cup Workers

VARIABLES
    authors,              \* rows of table authors
    books,                \* rows of table books
    narrators,            \* rows of table narrators
    book_narrators,       \* rows of table book_narrators
    pc,                   \* where each thread stands
    loc,                  \* each thread's local variables
    AUTOSYNC_STATE,       \* autosync.py:19
    AUTOSYNC_THREAD,      \* autosync.py:26, "none" or a worker
    AUTOSYNC_STOP_EVENT,  \* autosync.py:27, the Event's flag
    alive,                \* Thread.is_alive() of each worker
    clock,                \* datetime.utcnow(), as a tick count
    nImports,             \* endpoint imports begun (bounded by MaxImports)
    nCycles,              \* cycle opportunities used (bounded by MaxCycles)
    prev,                 \* history: the last finished live import
    twice,                \* history: a live import repeated directly
    lastCtl,              \* history: the last control call that returned
    trigLog,              \* history: the outcome of each trigger_sync_now call
    library               \* the normalized items the upstream library holds

storeVars == <<authors, books, narrators, book_narrators>>
schedVars == <<AUTOSYNC_STATE, AUTOSYNC_THREAD, AUTOSYNC_STOP_EVENT, alive, clock>>
histVars == <<nImports, nCycles, prev, twice, lastCtl, trigLog, library>>
vars == <<authors, books, narrators, book_narrators, pc, loc, AUTOSYNC_STATE,
          AUTOSYNC_THREAD, AUTOSYNC_STOP_EVENT, alive, clock, nImports, nCycles,
          prev, twice, lastCtl, trigLog, library>>

Store == [authors |-> authors, books |-> books, narrators |-> narrators,
          book_narrators |-> book_narrators]

EmptyStore == [authors |-> {}, books |-> {}, narrators |-> {}, book_narrators |-> {}]

\* ------------------------------------------------------------------ store
\* models.py: Author.ol_id is declared nullable=False (and unique)
OlIdNullable == FALSE

\* the INSERT of an Author row passes the table's constraints
AuthorInsertOK(row) ==
    /\ (row.ol_id = None => OlIdNullable)
    /\ \A a \in authors : row.ol_id # None => a.ol_id # row.ol_id

\* Book.title is nullable=False; uq_author_title is
\* UniqueConstraint("author_id", "title"), an exact comparison
BookInsertOK(row) ==
    /\ row.title # None
    /\ \A b \in books : ~(b.author_id = row.author_id /\ b.title = row.title)

\* Narrator.name is unique=True, an exact comparison
NarratorInsertOK(row) == \A n \in narrators : n.name # row.name

\* the primary key a serial column gives the next row (no row is deleted here)
NextId(rows) == Cardinality(rows) + 1

BookById(id) == CHOOSE b \in books : b.id = id
AuthorById(id) == CHOOSE a \in authors : a.id = id

\* book.narrators as the database holds it
NarratorsOf(bn, book_id) == {l.narrator_id : l \in {x \in bn : x.book_id = book_id}}

\* the rows the session's flush adds for the pending appends to book.narrators
Flush(bn, book_id, pending) ==
    bn \cup {[book_id |-> book_id, narrator_id |-> n,
              n |-> 1 + Cardinality({x \in bn : x.book_id = book_id /\ x.narrator_id = n})]
             : n \in pending}

\* rows of a query .filter(column.ilike(name))
AuthorMatches(name) == {a \in authors : ILike(a.name, name)}

BookMatches(author_id, title) ==
    {b \in books : b.author_id = author_id /\ ILike(b.title, title)}

NarratorMatches(name) == {n \in narrators : ILike(n.name, name)}

\* ------------------------------------------------------------------ locals
NoResult == [kind |-> "none", imported_count |-> 0, timestamp |-> 0, error |-> ""]

LocInit ==
    [ctx |-> "none", items |-> <<>>, dry |-> FALSE, idx |-> 0, results |-> <<>>,
     author |-> 0, book |-> 0, existing |-> 0, existing_cover |-> None, nidx |-> 0,
     attached |-> {}, pending |-> {}, exc |-> "", start |-> EmptyStore,
     resp |-> "none", retval |-> NoResult,
     op |-> "none", enabled |-> FALSE, creds |-> "", sleep_seconds |-> 0,
     woke |-> FALSE, cycles |-> 0, waited |-> 0, failed |-> FALSE, stamp |-> 0,
     base_url |-> <<>>, raw |-> <<>>, norm |-> <<>>,
     cache |-> None, had |-> None, name |-> <<>>, reqs |-> <<>>,
     ret |-> None, err |-> [type |-> "none", msg |-> "none"],
     snapshot |-> [enabled |-> FALSE, interval_hours |-> 0, last_run |-> 0,
                   last_result |-> NoResult]]

SetLoc(t, l) == loc' = [loc EXCEPT ![t] = l]
Goto(t, label) == pc' = [pc EXCEPT ![t] = label]

\* ------------------------------------------------------------------ import
\* import_bookshelf_items, "if not title or not authors: continue"
SkipItemAuthorsOnly(item) == ~Truthy(item.authors)

SkipItem(item) == ~Truthy(item.title) \/ ~Truthy(item.authors)

\* "if dry_run:" of import_bookshelf_items
DryRunIgnored(l) == FALSE

IsDryRun(l) == l.dry

\* resolve_book, "if abs_cover_url and not existing.abs_cover_url"
NeedBackfillAlways(incoming, existing) == Truthy(incoming)

NeedBackfill(incoming, existing) == Truthy(incoming) /\ ~Truthy(existing)

\* the exceptions "except Exception" of run_sync_now catches: RuntimeError
\* (bookshelf.py), requests' HTTPError and SQLAlchemy's IntegrityError all
\* derive from Exception
CatchesRuntimeErrorOnly(exc) == exc = "RuntimeError"

Catches(exc) == exc \in {"RuntimeError", "HTTPError", "IntegrityError", "OperationalError"}

DryOutcome(item) ==
    [action |-> "would_import", book_id |-> 0, title |-> item.title,
     authors |-> item.authors, author |-> None, narrators |-> item.narrators,
     narrator_names |-> {}, abs_cover_url |-> item.abs_cover_url]

LiveOutcome(book, author, names) ==
    [action |-> "imported", book_id |-> book.id, title |-> book.title,
     authors |-> <<>>, author |-> author.name, narrators |-> <<>>,
     narrator_names |-> names, abs_cover_url |-> book.abs_cover_url]

\* history of the runs of the import endpoint: the store a live run found and
\* the one it left, with the exception that ended it if one did, and the same
\* for a live run and its direct repetition
EndRun(t) ==
    IF loc[t].ctx = "endpoint" /\ ~loc[t].dry
    THEN /\ prev' = [valid |-> TRUE, items |-> loc[t].items, after |-> Store',
                     start |-> loc[t].start, exc |-> loc'[t].exc]
         /\ twice' = IF prev.valid /\ prev.items = loc[t].items
                        /\ prev.after = loc[t].start
                     THEN [valid |-> TRUE, first |-> prev.after, second |-> Store',
                           items |-> loc[t].items, origin |-> prev.start,
                           first_exc |-> prev.exc, exc |-> loc'[t].exc]
                     ELSE twice
    ELSE UNCHANGED <<prev, twice>>

\* an exception leaves import_bookshelf_items: the endpoint answers 500
\* (main.py:899), run_sync_now goes to its except clause, and an exception
\* nothing catches ends the thread or the request
Raise(t, exc) ==
    /\ pc' = [pc EXCEPT ![t] =
                IF loc[t].ctx = "endpoint" THEN "idle"
                ELSE IF Catches(exc) THEN "cyc_exc"
                ELSE IF t \in Workers THEN "crashed" ELSE "idle"]
    /\ loc' = [loc EXCEPT ![t] =
                [@ EXCEPT !.exc = exc, !.pending = {},
                          !.resp = IF loc[t].ctx = "endpoint" THEN "500"
                                   ELSE IF Catches(exc) THEN @ ELSE "propagated"]]
    /\ alive' = IF t \in Workers /\ loc[t].ctx # "endpoint" /\ ~Catches(exc)
                THEN [alive EXCEPT ![t] = FALSE] ELSE alive

\* the loop head "for raw_item in items" with the skip and the dry-run branch
ImportItem(t) ==
    /\ pc[t] = "imp_item"
    /\ loc[t].idx <= Len(loc[t].items)
    /\ LET l == loc[t]
           item == l.items[l.idx]
       IN IF SkipItem(item)
          THEN /\ SetLoc(t, [l EXCEPT !.idx = @ + 1])
               /\ UNCHANGED pc
          ELSE IF IsDryRun(l)
          THEN /\ SetLoc(t, [l EXCEPT !.idx = @ + 1,
                                      !.results = Append(@, DryOutcome(item))])
               /\ UNCHANGED pc
          ELSE /\ Goto(t, "author_q")
               /\ UNCHANGED loc
    /\ UNCHANGED <<storeVars, schedVars, histVars>>

\* "return results"
ImportReturn(t) ==
    /\ pc[t] = "imp_item"
    /\ loc[t].idx > Len(loc[t].items)
    /\ IF loc[t].ctx = "endpoint"
       THEN /\ Goto(t, "idle")
            /\ SetLoc(t, [loc[t] EXCEPT !.resp = "200"])
       ELSE /\ Goto(t, "cyc_w1")
            /\ UNCHANGED loc
    /\ UNCHANGED <<storeVars, schedVars, nImports, nCycles, lastCtl, trigLog, library>>
    /\ EndRun(t)

\* an importer that takes the last author of the list
LastAuthor(l) == Strip(l.items[l.idx].authors[Len(l.items[l.idx].authors)])

\* primary_author = authors[0].strip()
PrimaryAuthor(l) == Strip(l.items[l.idx].authors[1])

\* resolve_author: the lookup; .first() of a query with no ORDER BY is any
\* one of the matching rows
ResolveAuthorQuery(t) ==
    /\ pc[t] = "author_q"
    /\ LET m == AuthorMatches(PrimaryAuthor(loc[t]))
       IN IF m = {}
          THEN /\ Goto(t, "author_ins")
               /\ UNCHANGED loc
          ELSE \E a \in m :
                 /\ SetLoc(t, [loc[t] EXCEPT !.author = a.id])
                 /\ Goto(t, "book_q")
    /\ UNCHANGED <<storeVars, schedVars, histVars>>

\* resolve_author: Author(name, ol_id=None, image_url=None, monitored=True),
\* db.add, db.commit
ResolveAuthorInsert(t) ==
    /\ pc[t] = "author_ins"
    /\ UNCHANGED <<books, narrators, book_narrators, AUTOSYNC_STATE, AUTOSYNC_THREAD,
                   AUTOSYNC_STOP_EVENT, clock, nImports, nCycles, lastCtl, trigLog, library>>
    /\ LET row == [id |-> NextId(authors), name |-> PrimaryAuthor(loc[t]),
                   ol_id |-> None, image_url |-> None, monitored |-> TRUE]
       IN IF AuthorInsertOK(row)
          THEN /\ authors' = authors \cup {row}
               /\ SetLoc(t, [loc[t] EXCEPT !.author = row.id])
               /\ Goto(t, "book_q")
               /\ UNCHANGED <<alive, prev, twice>>
          ELSE /\ UNCHANGED authors
               /\ Raise(t, "IntegrityError")
               /\ EndRun(t)

\* resolve_book: the lookup by author_id and title
ResolveBookQuery(t) ==
    /\ pc[t] = "book_q"
    /\ LET l == loc[t]
           item == l.items[l.idx]
           m == BookMatches(l.author, item.title)
       IN IF m = {}
          THEN /\ Goto(t, "book_ins")
               /\ UNCHANGED loc
          ELSE \E b \in m :
                 /\ SetLoc(t, [l EXCEPT !.book = b.id, !.existing = b.id,
                                        !.existing_cover = b.abs_cover_url])
                 /\ Goto(t, IF NeedBackfill(item.abs_cover_url, b.abs_cover_url)
                            THEN "book_fill" ELSE "narr_begin")
    /\ UNCHANGED <<storeVars, schedVars, histVars>>

\* a backfill that also takes over the incoming title
BackfillAndRetitle(t) ==
    /\ pc[t] = "book_fill"
    /\ LET l == loc[t]
           item == l.items[l.idx]
       IN books' = {IF b.id = l.book
                    THEN [b EXCEPT !.abs_cover_url = item.abs_cover_url,
                                   !.title = item.title] ELSE b
                    : b \in books}
    /\ Goto(t, "narr_begin")
    /\ UNCHANGED <<authors, narrators, book_narrators, loc, schedVars, histVars>>

\* resolve_book: "existing.abs_cover_url = abs_cover_url; db.commit()"
ResolveBookBackfill(t) ==
    /\ pc[t] = "book_fill"
    /\ LET l == loc[t]
           item == l.items[l.idx]
       IN books' = {IF b.id = l.book
                    THEN [b EXCEPT !.abs_cover_url = item.abs_cover_url] ELSE b
                    : b \in books}
    /\ Goto(t, "narr_begin")
    /\ UNCHANGED <<authors, narrators, book_narrators, loc, schedVars, histVars>>

\* resolve_book: Book(title, ol_id=None, ..., abs_cover_url, author_id), commit
ResolveBookInsert(t) ==
    /\ pc[t] = "book_ins"
    /\ UNCHANGED <<authors, narrators, book_narrators, AUTOSYNC_STATE, AUTOSYNC_THREAD,
                   AUTOSYNC_STOP_EVENT, clock, nImports, nCycles, lastCtl, trigLog, library>>
    /\ LET l == loc[t]
           item == l.items[l.idx]
           row == [id |-> NextId(books), title |-> item.title, ol_id |-> None,
                   first_publish_year |-> 0, cover_url |-> None,
                   abs_cover_url |-> item.abs_cover_url, author_id |-> l.author]
       IN IF BookInsertOK(row)
          THEN /\ books' = books \cup {row}
               /\ SetLoc(t, [l EXCEPT !.book = row.id, !.existing = 0,
                                      !.existing_cover = None])
               /\ Goto(t, "narr_begin")
               /\ UNCHANGED <<alive, prev, twice>>
          ELSE /\ UNCHANGED books
               /\ Raise(t, "IntegrityError")
               /\ EndRun(t)

\* resolve_narrators is entered only "if narrators:"; it starts with
\* attached = set(n.name for n in book.narrators)
ResolveNarratorsBegin(t) ==
    /\ pc[t] = "narr_begin"
    /\ LET l == loc[t]
           item == l.items[l.idx]
       IN IF ~Truthy(item.narrators)
          THEN /\ Goto(t, "emit")
               /\ UNCHANGED loc
          ELSE /\ Goto(t, "narr_loop")
               /\ SetLoc(t, [l EXCEPT !.nidx = 1, !.pending = {},
                     !.attached = {n.name : n \in {x \in narrators :
                                      x.id \in NarratorsOf(book_narrators, l.book)}}])
    /\ UNCHANGED <<storeVars, schedVars, histVars>>

NarratorName(l) == Strip(l.items[l.idx].narrators[l.nidx])

\* an append that does not look at the collection first
AttachAlways(l, narrator_id) == l.pending \cup {narrator_id}

\* "if narrator not in book.narrators: book.narrators.append(narrator)": the
\* collection is what the database holds plus the appends not yet flushed
Attach(l, narrator_id) ==
    IF narrator_id \in NarratorsOf(book_narrators, l.book) \cup l.pending
    THEN l.pending ELSE l.pending \cup {narrator_id}

\* one pass of "for name in narrator_names" up to the lookup
ResolveNarratorsStep(t) ==
    /\ pc[t] = "narr_loop"
    /\ loc[t].nidx <= Len(loc[t].items[loc[t].idx].narrators)
    /\ LET l == loc[t]
           name == NarratorName(l)
           m == NarratorMatches(name)
       IN IF name = <<>> \/ name \in l.attached
          THEN /\ SetLoc(t, [l EXCEPT !.nidx = @ + 1])
               /\ UNCHANGED pc
          ELSE IF m = {}
          THEN /\ Goto(t, "narr_ins")
               /\ UNCHANGED loc
          ELSE \E n \in m :
                 /\ SetLoc(t, [l EXCEPT !.nidx = @ + 1, !.pending = Attach(l, n.id)])
                 /\ UNCHANGED pc
    /\ UNCHANGED <<storeVars, schedVars, histVars>>

\* "narrator = Narrator(name=name); db.add; db.commit(); db.refresh" and the
\* append that follows; the commit also flushes the appends made so far
ResolveNarratorsInsert(t) ==
    /\ pc[t] = "narr_ins"
    /\ UNCHANGED <<authors, books, AUTOSYNC_STATE, AUTOSYNC_THREAD,
                   AUTOSYNC_STOP_EVENT, clock, nImports, nCycles, lastCtl, trigLog, library>>
    /\ LET l == loc[t]
           row == [id |-> NextId(narrators), name |-> NarratorName(l)]
       IN IF NarratorInsertOK(row)
          THEN /\ narrators' = narrators \cup {row}
               /\ book_narrators' = Flush(book_narrators, l.book, l.pending)
               /\ SetLoc(t, [l EXCEPT !.nidx = @ + 1, !.pending = {row.id}])
               /\ Goto(t, "narr_loop")
               /\ UNCHANGED <<alive, prev, twice>>
          ELSE /\ UNCHANGED <<narrators, book_narrators>>
               /\ Raise(t, "IntegrityError")
               /\ EndRun(t)

\* the "db.commit()" that ends resolve_narrators
ResolveNarratorsEnd(t) ==
    /\ pc[t] = "narr_loop"
    /\ loc[t].nidx > Len(loc[t].items[loc[t].idx].narrators)
    /\ book_narrators' = Flush(book_narrators, loc[t].book, loc[t].pending)
    /\ SetLoc(t, [loc[t] EXCEPT !.pending = {}])
    /\ Goto(t, "emit")
    /\ UNCHANGED <<authors, books, narrators, schedVars, histVars>>

\* an importer that reports the title and the cover the item came with
EmitIncoming(t) ==
    /\ pc[t] = "emit"
    /\ LET l == loc[t]
           item == l.items[l.idx]
           names == {n.name : n \in {x \in narrators :
                                x.id \in NarratorsOf(book_narrators, l.book)}}
       IN SetLoc(t, [l EXCEPT !.idx = @ + 1,
               !.results = Append(@, LiveOutcome(
                   [BookById(l.book) EXCEPT !.title = item.title,
                                            !.abs_cover_url = item.abs_cover_url],
                   AuthorById(l.author), names))])
    /\ Goto(t, "imp_item")
    /\ UNCHANGED <<storeVars, schedVars, histVars>>

\* results.append({book_id, title, author, narrators, abs_cover_url}), read
\* from the rows as they are stored
EmitOutcome(t) ==
    /\ pc[t] = "emit"
    /\ LET l == loc[t]
           names == {n.name : n \in {x \in narrators :
                                x.id \in NarratorsOf(book_narrators, l.book)}}
       IN SetLoc(t, [l EXCEPT !.idx = @ + 1,
               !.results = Append(@, LiveOutcome(BookById(l.book),
                                                 AuthorById(l.author), names))])
    /\ Goto(t, "imp_item")
    /\ UNCHANGED <<storeVars, schedVars, histVars>>

ImportStep(t) ==
    \/ ImportItem(t)
    \/ ImportReturn(t)
    \/ ResolveAuthorQuery(t)
    \/ ResolveAuthorInsert(t)
    \/ ResolveBookQuery(t)
    \/ ResolveBookBackfill(t)
    \/ ResolveBookInsert(t)
    \/ ResolveNarratorsBegin(t)
    \/ ResolveNarratorsStep(t)
    \/ ResolveNarratorsInsert(t)
    \/ ResolveNarratorsEnd(t)
    \/ EmitOutcome(t)

\* ------------------------------------------------------------------ inputs
\* normalized items, as BookshelfClient.normalize_item returns them
Item(title, item_authors, item_narrators, cover) ==
    [title |-> title, authors |-> item_authors, narrators |-> item_narrators,
     abs_cover_url |-> cover]

ItemPool ==
    { Item(S_ab, <<S_ab>>, <<>>, None),
      Item(S_AB, <<S_AB, S_ac>>, <<S_ab, S_ac>>, C_1),
      Item(S_ac, <<S_sp_ab>>, <<S_a_>>, None),
      Item(S_ab, <<S_ab>>, <<S_AB, S_AB>>, C_2),
      Item(None, <<S_ab>>, <<S_ac>>, C_1),
      Item(S_empty, <<S_ab>>, <<>>, C_2),
      Item(S_ab, <<>>, <<S_ac>>, C_1),
      Item(S_axb, <<S_ab>>, <<S_axb, S_Axb>>, None),
      \* of a raw item whose metadata title is one blank and authorName "ab"
      Item(<<" ">>, <<S_ab>>, <<>>, None),
      \* of a raw item whose one structured author has a name of one blank
      Item(S_ab, <<S_empty>>, <<>>, None) }

RECURSIVE SeqsUpTo(_, _)
SeqsUpTo(S, n) ==
    IF n = 0 THEN {<<>>}
    ELSE LET shorter == SeqsUpTo(S, n - 1)
         IN shorter \cup {Append(q, x) : q \in shorter, x \in S}

Batches == SeqsUpTo(ItemPool, MaxBatch)

\* authors the OpenLibrary side of the application adds (POST /authors/)
ApiAuthorNames == {S_ab}
ApiOlIds == {<<"O", "1">>}

\* ------------------------------------------------------------------ endpoints
\* POST /authors/: the row is added unless one with this ol_id exists
CreateAuthor(t, name, ol_id) ==
    /\ pc[t] = "idle"
    /\ \A a \in authors : a.ol_id # ol_id
    /\ authors' = authors \cup {[id |-> NextId(authors), name |-> name, ol_id |-> ol_id,
                                 image_url |-> None, monitored |-> TRUE]}
    /\ UNCHANGED <<books, narrators, book_narrators, pc, loc, schedVars, histVars>>

\* POST /library/import/bookshelf: the items fetched and normalized are handed
\* to import_bookshelf_items(db, normalized, dry_run)
ImportBookshelfBegin(t, items, dry) ==
    /\ pc[t] = "idle"
    /\ nImports < MaxImports
    /\ nImports' = nImports + 1
    /\ SetLoc(t, [LocInit EXCEPT !.ctx = "endpoint", !.items = items, !.dry = dry,
                                 !.idx = 1, !.start = Store])
    /\ Goto(t, "imp_item")
    /\ UNCHANGED <<storeVars, schedVars, nCycles, prev, twice, lastCtl, trigLog, library>>

\* ------------------------------------------------------------------ init
NoRun == [valid |-> FALSE, items |-> <<>>, after |-> EmptyStore, start |-> EmptyStore,
          exc |-> ""]
NoTwice == [valid |-> FALSE, first |-> EmptyStore, second |-> EmptyStore, items |-> <<>>,
            origin |-> EmptyStore, first_exc |-> "", exc |-> ""]

\* the state after import of the modules: empty tables, AUTOSYNC_STATE as
\* autosync.py:19-27 writes it, no thread created
InitModules ==
    /\ authors = {}
    /\ books = {}
    /\ narrators = {}
    /\ book_narrators = {}
    /\ loc = [t \in Threads |-> LocInit]
    /\ AUTOSYNC_STATE = [enabled |-> FALSE, interval_hours |-> 6, last_run |-> 0,
                         last_result |-> NoResult]
    /\ AUTOSYNC_THREAD = "none"
    /\ AUTOSYNC_STOP_EVENT = FALSE
    /\ alive = [w \in Workers |-> FALSE]
    /\ clock = 1
    /\ nImports = 0
    /\ nCycles = 0
    /\ prev = NoRun
    /\ twice = NoTwice
    /\ lastCtl = "none"
    /\ trigLog = <<>>

\* the server is up and waits for requests
InitCommon ==
    /\ InitModules
    /\ pc = [t \in Threads |-> IF t \in Requests THEN "idle" ELSE "unborn"]

\* the import endpoint is handed its batch directly
Init == InitCommon /\ library = <<>>

\* the import pipeline driven through its endpoint, one request at a time
NextImport ==
    \E t \in Callers :
        \/ \E name \in ApiAuthorNames, ol_id \in ApiOlIds : CreateAuthor(t, name, ol_id)
        \/ \E items \in Batches, dry \in BOOLEAN : ImportBookshelfBegin(t, items, dry)
        \/ ImportStep(t)

SpecImport == Init /\ [][NextImport]_vars

\* a failure that takes back what the run had committed
StoreFailsUndoing(t) ==
    /\ pc[t] \in {"author_q", "author_ins", "book_q", "book_fill", "book_ins", "narr_loop",
                  "narr_ins"}
    /\ authors' = loc[t].start.authors
    /\ books' = loc[t].start.books
    /\ narrators' = loc[t].start.narrators
    /\ book_narrators' = loc[t].start.book_narrators
    /\ UNCHANGED <<AUTOSYNC_STATE, AUTOSYNC_THREAD, AUTOSYNC_STOP_EVENT, clock,
                   nImports, nCycles, lastCtl, trigLog, library>>
    /\ Raise(t, "OperationalError")
    /\ EndRun(t)

\* a store-level failure (the connection is lost) in one of the statements of
\* the import that go to the database: the statement raises OperationalError,
\* nothing of it is committed, and the exception leaves import_bookshelf_items
\* as any other does
StoreFails(t) ==
    /\ pc[t] \in {"author_q", "author_ins", "book_q", "book_fill", "book_ins", "narr_loop",
                  "narr_ins"}
    /\ UNCHANGED <<storeVars, AUTOSYNC_STATE, AUTOSYNC_THREAD, AUTOSYNC_STOP_EVENT, clock,
                   nImports, nCycles, lastCtl, trigLog, library>>
    /\ Raise(t, "OperationalError")
    /\ EndRun(t)

\* the import endpoint over a store that may fail
NextFaulty ==
    \/ NextImport
    \/ \E t \in Callers : StoreFails(t)

SpecFaulty == Init /\ [][NextFaulty]_vars

\* ------------------------------------------------------------------ autosync
\* the credentials settings_store.get_abs_config hands to the endpoints
Creds == {"k1"}
\* values of the interval_hours query parameter
Intervals == {1}

\* what the upstream library may hold, already normalized: one item, or that
\* item after one of the same title that has no cover, or after one that
\* names no author
Libraries ==
    { <<Item(S_AB, <<S_AB, S_ac>>, <<S_ab>>, C_1)>>,
      <<Item(S_ab, <<S_ab>>, <<>>, None), Item(S_AB, <<S_AB, S_ac>>, <<S_ab>>, C_1)>>,
      <<Item(S_ab, <<>>, <<S_ac>>, C_1), Item(S_AB, <<S_AB, S_ac>>, <<S_ab>>, C_1)>> }

InitSync == InitCommon /\ library \in Libraries

\* import_bookshelf_items(db, normalized, dry_run=False) in run_sync_now
SyncDryRunTrue == TRUE

SyncDryRun == FALSE

\* positions of a thread inside run_sync_now
CycleLabels == {"cyc_fetch", "imp_item", "author_q", "author_ins", "book_q", "book_fill",
                "book_ins", "narr_begin", "narr_loop", "narr_ins", "emit", "cyc_w1",
                "cyc_w2", "cyc_exc", "cyc_ret"}

InCycle(t) == loc[t].ctx = "cycle" /\ pc[t] \in CycleLabels

\* run_sync_now takes no lock: a thread enters it whatever the others are doing
CyclesExclusive == TRUE

CycleLockHeld == FALSE

MayBeginCycle(t) == CycleLockHeld => \A u \in Threads \ {t} : ~InCycle(u)

\* the locals of a thread that enters run_sync_now
CycleLoc(l, creds) ==
    [l EXCEPT !.ctx = "cycle", !.items = <<>>, !.dry = SyncDryRun, !.idx = 0,
              !.results = <<>>, !.author = 0, !.book = 0, !.existing = 0,
              !.existing_cover = None, !.nidx = 0, !.attached = {}, !.pending = {},
              !.exc = "", !.start = Store, !.creds = creds,
              !.cycles = @ + 1, !.waited = 0, !.stamp = 0]

\* run_sync_now: client.get_all_items() and normalize_item; the HTTP request
\* answers, or _get raises (RuntimeError on 401/404, HTTPError otherwise)
CycleFetch(t) ==
    /\ pc[t] = "cyc_fetch"
    /\ UNCHANGED <<storeVars, AUTOSYNC_STATE, AUTOSYNC_THREAD, AUTOSYNC_STOP_EVENT,
                   clock, histVars>>
    /\ \/ /\ SetLoc(t, [loc[t] EXCEPT !.items = library, !.idx = 1])
          /\ Goto(t, "imp_item")
          /\ UNCHANGED alive
       \/ \E exc \in {"RuntimeError", "HTTPError"} : Raise(t, exc)

\* AUTOSYNC_STATE["last_run"] = datetime.utcnow().isoformat(); the thread
\* keeps in stamp the value it wrote
CycleRecordRun(t) ==
    /\ pc[t] = "cyc_w1"
    /\ AUTOSYNC_STATE' = [AUTOSYNC_STATE EXCEPT !.last_run = clock]
    /\ clock' = clock + 1
    /\ SetLoc(t, [loc[t] EXCEPT !.stamp = clock])
    /\ Goto(t, "cyc_w2")
    /\ UNCHANGED <<storeVars, AUTOSYNC_THREAD, AUTOSYNC_STOP_EVENT, alive, histVars>>

\* a record that counts the items fetched, skipped ones included
CycleRecordFetched(t) ==
    /\ pc[t] = "cyc_w2"
    /\ AUTOSYNC_STATE' = [AUTOSYNC_STATE EXCEPT !.last_result =
            [kind |-> "ok", imported_count |-> Len(loc[t].items),
             timestamp |-> AUTOSYNC_STATE.last_run, error |-> ""]]
    /\ Goto(t, "cyc_ret")
    /\ UNCHANGED <<storeVars, loc, AUTOSYNC_THREAD, AUTOSYNC_STOP_EVENT, alive, clock,
                   histVars>>

\* AUTOSYNC_STATE["last_result"] = {imported_count, timestamp}
CycleRecordResult(t) ==
    /\ pc[t] = "cyc_w2"
    /\ AUTOSYNC_STATE' = [AUTOSYNC_STATE EXCEPT !.last_result =
            [kind |-> "ok", imported_count |-> Len(loc[t].results),
             timestamp |-> AUTOSYNC_STATE.last_run, error |-> ""]]
    /\ Goto(t, "cyc_ret")
    /\ UNCHANGED <<storeVars, loc, AUTOSYNC_THREAD, AUTOSYNC_STOP_EVENT, alive, clock,
                   histVars>>

\* an except clause that also stamps last_run
CycleExceptStamps(t) ==
    /\ pc[t] = "cyc_exc"
    /\ AUTOSYNC_STATE' = [AUTOSYNC_STATE EXCEPT !.last_run = clock, !.last_result =
            [kind |-> "error", imported_count |-> 0, timestamp |-> 0,
             error |-> loc[t].exc]]
    /\ SetLoc(t, [loc[t] EXCEPT !.failed = TRUE])
    /\ Goto(t, "cyc_ret")
    /\ UNCHANGED <<storeVars, AUTOSYNC_THREAD, AUTOSYNC_STOP_EVENT, alive, clock, histVars>>

\* except Exception as exc: AUTOSYNC_STATE["last_result"] = {"error": str(exc)}
CycleExcept(t) ==
    /\ pc[t] = "cyc_exc"
    /\ AUTOSYNC_STATE' = [AUTOSYNC_STATE EXCEPT !.last_result =
            [kind |-> "error", imported_count |-> 0, timestamp |-> 0,
             error |-> loc[t].exc]]
    /\ SetLoc(t, [loc[t] EXCEPT !.failed = TRUE])
    /\ Goto(t, "cyc_ret")
    /\ UNCHANGED <<storeVars, AUTOSYNC_THREAD, AUTOSYNC_STOP_EVENT, alive, clock, histVars>>

\* return AUTOSYNC_STATE["last_result"] (and finally: db.close()); the worker
\* goes on to its wait, trigger_sync_now hands the value to its caller
CycleReturn(t) ==
    /\ pc[t] = "cyc_ret"
    /\ SetLoc(t, [loc[t] EXCEPT !.retval = AUTOSYNC_STATE.last_result,
                                !.resp = IF t \in Workers THEN @ ELSE "200"])
    /\ Goto(t, IF t \in Workers THEN "loop_sleep" ELSE "idle")
    /\ trigLog' = IF t \in Workers THEN trigLog
                  ELSE Append(trigLog,
                         [exc |-> loc[t].exc, empty_start |-> loc[t].start = EmptyStore,
                          book_ids |-> [i \in 1..Len(loc[t].results) |->
                                            loc[t].results[i].book_id]])
    /\ UNCHANGED <<storeVars, schedVars, nImports, nCycles, prev, twice, lastCtl, library>>

CycleStep(t) ==
    \/ CycleFetch(t)
    \/ CycleRecordRun(t)
    \/ CycleRecordResult(t)
    \/ CycleExcept(t)
    \/ CycleReturn(t)

\* AUTOSYNC_STOP_EVENT.is_set()
StopNotLookedAt == FALSE

StopIsSet == AUTOSYNC_STOP_EVENT

\* autosync_loop: while not AUTOSYNC_STOP_EVENT.is_set()
WorkerLoopHead(w) ==
    /\ pc[w] = "loop_head"
    /\ IF StopIsSet
       THEN /\ Goto(w, "exited")
            /\ alive' = [alive EXCEPT ![w] = FALSE]
       ELSE /\ Goto(w, "loop_enabled")
            /\ UNCHANGED alive
    /\ UNCHANGED <<storeVars, loc, AUTOSYNC_STATE, AUTOSYNC_THREAD, AUTOSYNC_STOP_EVENT,
                   clock, histVars>>

\* a loop that runs its cycle whatever enabled says
LoopEnabledIgnored == TRUE

\* autosync_loop: if AUTOSYNC_STATE["enabled"]
LoopEnabled == AUTOSYNC_STATE.enabled

\* autosync_loop: if AUTOSYNC_STATE["enabled"]: run_sync_now(base_url, api_key)
WorkerCheckEnabled(w) ==
    /\ pc[w] = "loop_enabled"
    /\ IF LoopEnabled
       THEN /\ MayBeginCycle(w)
            /\ SetLoc(w, CycleLoc(loc[w], loc[w].creds))
            /\ Goto(w, "cyc_fetch")
       ELSE /\ Goto(w, "loop_sleep")
            /\ UNCHANGED loc
    /\ UNCHANGED <<storeVars, schedVars, histVars>>

\* sleep_seconds = AUTOSYNC_STATE["interval_hours"] * 3600
WorkerReadInterval(w) ==
    /\ pc[w] = "loop_sleep"
    /\ SetLoc(w, [loc[w] EXCEPT !.sleep_seconds = AUTOSYNC_STATE.interval_hours * 3600])
    /\ Goto(w, "loop_wait")
    /\ UNCHANGED <<storeVars, schedVars, histVars>>

\* Event.wait(timeout) returns True as soon as the flag is set
WaitIsPlainSleep == FALSE

WaitInterrupted == AUTOSYNC_STOP_EVENT

\* woke = AUTOSYNC_STOP_EVENT.wait(...) is True: break, and the thread ends
WorkerWaitWoke(w) ==
    /\ pc[w] = "loop_wait"
    /\ WaitInterrupted
    /\ SetLoc(w, [loc[w] EXCEPT !.woke = TRUE])
    /\ Goto(w, "exited")
    /\ alive' = [alive EXCEPT ![w] = FALSE]
    /\ UNCHANGED <<storeVars, AUTOSYNC_STATE, AUTOSYNC_THREAD, AUTOSYNC_STOP_EVENT,
                   clock, histVars>>

\* the timeout elapses with the flag clear: woke is False, the loop goes round
WorkerWaitTimeout(w) ==
    /\ pc[w] = "loop_wait"
    /\ ~WaitInterrupted
    /\ nCycles < MaxCycles
    /\ nCycles' = nCycles + 1
    /\ SetLoc(w, [loc[w] EXCEPT !.woke = FALSE, !.waited = @ + 1])
    /\ Goto(w, "loop_head")
    /\ UNCHANGED <<storeVars, schedVars, nImports, prev, twice, lastCtl, trigLog, library>>

\* the steps a live worker takes by itself (the timeout is time passing)
WorkerLoop(w) ==
    \/ WorkerLoopHead(w)
    \/ WorkerCheckEnabled(w)
    \/ WorkerReadInterval(w)
    \/ WorkerWaitWoke(w)

WorkerRun(w) ==
    \/ WorkerLoop(w)
    \/ CycleStep(w)
    \/ ImportStep(w)

\* configure_autosync: the two assignments to AUTOSYNC_STATE
ConfigureAutosync(c, enabled, interval_hours, creds) ==
    /\ pc[c] = "idle"
    /\ nCycles < MaxCycles
    /\ AUTOSYNC_STATE' = [AUTOSYNC_STATE EXCEPT !.enabled = enabled,
                                                !.interval_hours = interval_hours]
    /\ SetLoc(c, [LocInit EXCEPT !.op = "configure", !.enabled = enabled,
                                 !.creds = creds])
    /\ Goto(c, IF enabled THEN "start_check" ELSE "stop_set")
    /\ UNCHANGED <<storeVars, AUTOSYNC_THREAD, AUTOSYNC_STOP_EVENT, alive, clock, histVars>>

\* a direct call of start_autosync_thread(base_url, api_key)
StartAutosyncThread(c, creds) ==
    /\ pc[c] = "idle"
    /\ nCycles < MaxCycles
    /\ SetLoc(c, [LocInit EXCEPT !.op = "start", !.creds = creds])
    /\ Goto(c, "start_check")
    /\ UNCHANGED <<storeVars, schedVars, histVars>>

\* a direct call of stop_autosync_thread()
StopAutosyncThread(c) ==
    /\ pc[c] = "idle"
    /\ SetLoc(c, [LocInit EXCEPT !.op = "stop"])
    /\ Goto(c, "stop_set")
    /\ UNCHANGED <<storeVars, schedVars, histVars>>

\* the call returns to the endpoint: configure_autosync answers with
\* get_autosync_status()
ControlReturn(c) ==
    /\ Goto(c, "idle")
    /\ lastCtl' = IF loc[c].op = "configure"
                  THEN (IF loc[c].enabled THEN "configure_on" ELSE "configure_off")
                  ELSE loc[c].op
    /\ UNCHANGED <<nImports, nCycles, prev, twice, trigLog, library>>

\* a start that never finds a thread
ThreadNeverAlive == FALSE

\* AUTOSYNC_THREAD and AUTOSYNC_THREAD.is_alive()
ThreadIsAlive == AUTOSYNC_THREAD # "none" /\ alive[AUTOSYNC_THREAD]

\* start_autosync_thread: if AUTOSYNC_THREAD and AUTOSYNC_THREAD.is_alive(): return
StartCheck(c) ==
    /\ pc[c] = "start_check"
    /\ IF ThreadIsAlive
       THEN /\ ControlReturn(c)
            /\ SetLoc(c, [loc[c] EXCEPT !.resp = "200"])
       ELSE /\ Goto(c, "start_clear")
            /\ UNCHANGED <<loc, histVars>>
    /\ UNCHANGED <<storeVars, schedVars>>

\* start_autosync_thread: AUTOSYNC_STOP_EVENT.clear()
StartClear(c) ==
    /\ pc[c] = "start_clear"
    /\ AUTOSYNC_STOP_EVENT' = FALSE
    /\ Goto(c, "start_launch")
    /\ UNCHANGED <<storeVars, loc, AUTOSYNC_STATE, AUTOSYNC_THREAD, alive, clock, histVars>>

\* the thread object the launch creates: a worker that is not running
WorkerOrder == <<"w1", "w2">>

FreeWorker ==
    WorkerOrder[CHOOSE i \in 1..Len(WorkerOrder) :
                    /\ ~alive[WorkerOrder[i]]
                    /\ \A j \in 1..(i - 1) : alive[WorkerOrder[j]]]

\* a launch that hands the worker fixed credentials, not those of the call
StartLaunchUnbound(c) ==
    /\ pc[c] = "start_launch"
    /\ \E w \in Workers : ~alive[w]
    /\ LET w == FreeWorker
       IN /\ AUTOSYNC_THREAD' = w
          /\ alive' = [alive EXCEPT ![w] = TRUE]
          /\ pc' = [pc EXCEPT ![w] = "loop_head", ![c] = "idle"]
          /\ loc' = [loc EXCEPT ![w] = [LocInit EXCEPT !.op = "worker", !.creds = "k1"],
                                ![c] = [@ EXCEPT !.resp = "200"]]
    /\ lastCtl' = IF loc[c].op = "configure" THEN "configure_on" ELSE loc[c].op
    /\ nCycles' = nCycles + 1
    /\ UNCHANGED <<storeVars, AUTOSYNC_STATE, AUTOSYNC_STOP_EVENT, clock, nImports,
                   prev, twice, trigLog, library>>

\* start_autosync_thread: AUTOSYNC_THREAD = Thread(target=autosync_loop,
\* args=(base_url, api_key)); AUTOSYNC_THREAD.start()
StartLaunch(c) ==
    /\ pc[c] = "start_launch"
    /\ \E w \in Workers : ~alive[w]
    /\ LET w == FreeWorker
       IN /\ AUTOSYNC_THREAD' = w
          /\ alive' = [alive EXCEPT ![w] = TRUE]
          /\ pc' = [pc EXCEPT ![w] = "loop_head", ![c] = "idle"]
          /\ loc' = [loc EXCEPT ![w] = [LocInit EXCEPT !.op = "worker",
                                                       !.creds = loc[c].creds],
                                ![c] = [@ EXCEPT !.resp = "200"]]
    /\ lastCtl' = IF loc[c].op = "configure" THEN "configure_on" ELSE loc[c].op
    /\ nCycles' = nCycles + 1
    /\ UNCHANGED <<storeVars, AUTOSYNC_STATE, AUTOSYNC_STOP_EVENT, clock, nImports,
                   prev, twice, trigLog, library>>

\* stop_autosync_thread: AUTOSYNC_STOP_EVENT.set()
StopSet(c) ==
    /\ pc[c] = "stop_set"
    /\ AUTOSYNC_STOP_EVENT' = TRUE
    /\ ControlReturn(c)
    /\ SetLoc(c, [loc[c] EXCEPT !.resp = "200"])
    /\ UNCHANGED <<storeVars, AUTOSYNC_STATE, AUTOSYNC_THREAD, alive, clock>>

\* trigger_sync_now: return run_sync_now(base_url, api_key)
TriggerSyncNow(c, creds) ==
    /\ pc[c] = "idle"
    /\ nCycles < MaxCycles
    /\ MayBeginCycle(c)
    /\ nCycles' = nCycles + 1
    /\ SetLoc(c, CycleLoc([LocInit EXCEPT !.op = "trigger"], creds))
    /\ Goto(c, "cyc_fetch")
    /\ UNCHANGED <<storeVars, schedVars, nImports, prev, twice, lastCtl, trigLog, library>>

\* the calls that start and stop the worker, and their steps
ControlStep(c) ==
    \/ \E e \in BOOLEAN, i \in Intervals, k \in Creds : ConfigureAutosync(c, e, i, k)
    \/ \E k \in Creds : StartAutosyncThread(c, k)
    \/ StopAutosyncThread(c)
    \/ StartCheck(c)
    \/ StartClear(c)
    \/ StartLaunch(c)
    \/ StopSet(c)

CallerStep(c) ==
    \/ ControlStep(c)
    \/ \E k \in Creds : TriggerSyncNow(c, k)
    \/ CycleStep(c)
    \/ ImportStep(c)

\* the scheduler with its worker, the endpoints that control it, and the
\* OpenLibrary side adding an author
NextSync ==
    \/ \E c \in Callers : CallerStep(c)
    \/ \E c \in Callers, name \in ApiAuthorNames, ol_id \in ApiOlIds :
            CreateAuthor(c, name, ol_id)
    \/ \E w \in Workers : WorkerRun(w)
    \/ \E w \in Workers : WorkerWaitTimeout(w)

SpecSync == InitSync /\ [][NextSync]_vars

\* the upstream library is not the application's: between two fetches of
\* client.get_all_items() it may have gained an item
UpstreamChanges ==
    /\ library' \in {l \in Libraries : Len(l) = Len(library) + 1 /\ Tail(l) = library}
    /\ UNCHANGED <<storeVars, pc, loc, schedVars, nImports, nCycles, prev, twice,
                   lastCtl, trigLog>>

\* the scheduler, its endpoints and an upstream that changes
NextUpstream ==
    \/ NextSync
    \/ UpstreamChanges

SpecUpstream == InitSync /\ [][NextUpstream]_vars

\* two requests to the control endpoints served at the same time (the handlers
\* are plain "def" functions, which the server runs on a pool of threads),
\* with an upstream library that holds no item: of import_bookshelf_items a
\* cycle reaches only "return results"
InitControl == InitCommon /\ library = <<>>

NextControl ==
    \/ \E c \in Requests : ControlStep(c)
    \/ \E w \in Workers : WorkerLoop(w) \/ CycleStep(w) \/ ImportReturn(w)
    \/ \E w \in Workers : WorkerWaitTimeout(w)

SpecControl == InitControl /\ [][NextControl]_vars

\* the interpreter schedules every live thread: a worker that can take a step
\* takes one; the timeout of its wait is not owed
SpecSyncFair == SpecSync /\ \A w \in Workers : WF_vars(WorkerRun(w))

\* ------------------------------------------------------------------ normalize
\* str.split(","): the pieces between the commas, empty ones included
RECURSIVE Split(_, _)
Split(s, sep) ==
    IF \A i \in 1..Len(s) : s[i] # sep
    THEN <<s>>
    ELSE LET i == CHOOSE k \in 1..Len(s) : s[k] = sep /\ \A j \in 1..(k - 1) : s[j] # sep
         IN <<SubSeq(s, 1, i - 1)>> \o Split(SubSeq(s, i + 1, Len(s)), sep)

\* [x.strip() for x in field.split(",") if x.strip()]
KeepEmptyParts(field) ==
    LET parts == Split(field, ",") IN [i \in 1..Len(parts) |-> Strip(parts[i])]

SplitNames(field) ==
    LET parts == Split(field, ",")
        stripped == [i \in 1..Len(parts) |-> Strip(parts[i])]
    IN SelectSeq(stripped, LAMBDA x : x # <<>>)

\* the places of " - " in a path
DashAt(s) == {i \in 1..(Len(s) - 2) : s[i] = " " /\ s[i + 1] = "-" /\ s[i + 2] = " "}

\* rel.split(" - ")[0]
BeforeDash(s) ==
    LET i == CHOOSE k \in DashAt(s) : \A j \in DashAt(s) : k <= j
    IN SubSeq(s, 1, i - 1)

\* a or b or c
Or3(a, b, c) == IF Truthy(a) THEN a ELSE IF Truthy(b) THEN b ELSE c

\* BookshelfClient.__init__: self.base_url = base_url.rstrip("/")
RECURSIVE RStripSlash(_)
RStripSlash(s) ==
    IF s # <<>> /\ s[Len(s)] = "/" THEN RStripSlash(SubSeq(s, 1, Len(s) - 1)) ELSE s

\* extract_cover_url: None without an id, else {base_url}/api/items/{id}/cover
ExtractCoverUrl(base_url, item) ==
    IF ~Truthy(item.id) THEN None
    ELSE base_url \o <<"/api/items/">> \o item.id \o <<"/cover">>

\* normalize_item, step 1: the names of item["authors"], stripped, for the
\* entries whose name is truthy
StructuredAuthors(item) ==
    LET named == SelectSeq(item.authors, LAMBDA n : Truthy(n))
    IN [i \in 1..Len(named) |-> Strip(named[i])]

\* normalize_item, the authors: each later source only "if not authors"
NormalizeAuthors(item) ==
    LET a1 == StructuredAuthors(item)
        a2 == IF a1 = <<>> /\ Truthy(item.authorName)
              THEN SplitNames(item.authorName) ELSE a1
    IN IF a2 = <<>> /\ DashAt(item.relPath) # {}
          /\ Strip(BeforeDash(item.relPath)) # <<>>
       THEN <<Strip(BeforeDash(item.relPath))>>
       ELSE a2

\* normalize_item, the narrators
NormalizeNarrators(item) ==
    IF Truthy(item.narratorName) THEN SplitNames(item.narratorName) ELSE <<>>

\* normalize_item(item) of a client built with base_url
normalize_item(base_url, item) ==
    [title |-> Or3(item.m_title, item.title, item.name),
     authors |-> NormalizeAuthors(item),
     narrators |-> NormalizeNarrators(item),
     abs_cover_url |-> ExtractCoverUrl(RStripSlash(base_url), item)]

\* raw items as the upstream sends them: id, item-level title and name,
\* item["authors"] as the list of its names, media.metadata title / authorName /
\* narratorName, relPath, and the media kind fields
RawItem(id, m_title, title, name, names, authorName, narratorName, relPath) ==
    [id |-> id, m_title |-> m_title, title |-> title, name |-> name, authors |-> names,
     authorName |-> authorName, narratorName |-> narratorName, relPath |-> relPath,
     mediaType |-> None, type |-> None]


BaseUrls == {<<"h">>, <<"h", "/">>}

RawPool ==
    {RawItem(id, mt, ti, na, al, an, nn, rp) :
        id \in {None, S_empty, <<"i">>},
        mt \in {None, S_empty, <<"t">>},
        ti \in {None, <<"u">>},
        na \in {None, S_empty, <<"n">>},
        al \in {<<>>, <<<<"a">>>>, <<None, <<" ", "b">>>>, <<<<" ">>>>},
        an \in {None, S_empty, <<"a", ",", " ", "b">>,
                <<" ", "a", " ", ",", " ">>, <<",">>},
        nn \in {None, <<"a", ",", " ", "b">>, <<",">>},
        rp \in {S_empty, <<"a", " ", "-", " ", "b", " ", "-", " ", "c">>,
                <<" ", "-", " ", "b">>, <<"a", "-", "b">>}}

\* a raw item of the upstream library
InitNormalize == InitCommon /\ library \in {<<r>> : r \in RawPool}

\* client = BookshelfClient(base_url, api_key); client.normalize_item(i)
NormalizeItem(t, base_url) ==
    /\ pc[t] = "idle"
    /\ loc[t].op = "none"
    /\ SetLoc(t, [LocInit EXCEPT !.op = "normalize", !.base_url = base_url,
                                 !.raw = library[1],
                                 !.norm = normalize_item(base_url, library[1])])
    /\ UNCHANGED <<pc, storeVars, schedVars, histVars>>

NextNormalize == \E t \in Callers, b \in BaseUrls : NormalizeItem(t, b)

SpecNormalize == InitNormalize /\ [][NextNormalize]_vars

\* ------------------------------------------------------------------ client

\* the longest item list the upstream returns
MaxResults == 2

\* library ids and media kinds, as strings of the model
LibIds == {<<"L1">>, <<"L2">>}
K_book == <<"book">>
K_audiobook == <<"audiobook">>
K_podcast == <<"podcast">>

\* name: str = "audiobooks", on the model's alphabet
DefaultName == S_ab

\* the names _get_library_id is asked for
AskedNames == {S_ab, S_AB, S_ac}

\* GET /api/libraries: the upstream's named libraries
UpstreamLibraries ==
    {<<>>,
     <<[name |-> S_ac, id |-> <<"L2">>]>>,
     <<[name |-> S_AB, id |-> <<"L1">>]>>,
     <<[name |-> S_ac, id |-> <<"L2">>], [name |-> <<"A", "b">>, id |-> <<"L1">>]>>,
     <<[name |-> S_ab, id |-> <<"L2">>], [name |-> S_AB, id |-> <<"L1">>]>>}

\* an item as /api/libraries/{id}/items lists it: the fields get_all_items reads
ListedItems ==
    {[id |-> <<"i">>, mediaType |-> m, type |-> ty] :
        m \in {None, <<>>, K_book, K_podcast},
        ty \in {None, <<>>, K_audiobook, K_podcast}}

\* the upstream: its libraries and the items of each
Upstream(libs, results) ==
    [libraries |-> libs,
     items |-> [l \in LibIds |->
                   IF l = <<"L1">>
                   THEN results
                   ELSE <<[id |-> <<"k">>, mediaType |-> K_podcast, type |-> None],
                          [id |-> <<"k">>, mediaType |-> None, type |-> None]>>]]

LibrariesPath == [kind |-> "libraries", lib |-> None]
ItemsPath(lib_id) == [kind |-> "items", lib |-> lib_id]

\* resp of requests.get: no response at all (connection error, timeout after
\* 20 s) or a response with a status code
Statuses == {200, 401, 403, 404, 500}
Answers ==
    {[answered |-> FALSE, status |-> 0]} \cup
    {[answered |-> TRUE, status |-> st] : st \in Statuses}

\* resp.json() of a 200 answer
Body(up, path) ==
    IF path.kind = "libraries"
    THEN [libraries |-> up.libraries, results |-> <<>>]
    ELSE [libraries |-> <<>>, results |-> up.items[path.lib]]

NoExc == [type |-> "none", msg |-> "none"]

\* raise_for_status() taken for every error status
StatusErrorUnmapped(status) ==
    IF status >= 400
    THEN [type |-> "HTTPError", msg |-> "status"]
    ELSE NoExc

\* the exception _get raises on a status code
StatusError(status) ==
    IF status = 401
    THEN [type |-> "RuntimeError", msg |-> "unauthorized"]
    ELSE IF status = 404
    THEN [type |-> "RuntimeError", msg |-> "resource not found"]
    ELSE IF status >= 400
    THEN [type |-> "HTTPError", msg |-> "status"]
    ELSE NoExc

\* _get(path): one requests.get, no retry
_get(up, path, ans) ==
    IF ~ans.answered
    THEN [exc |-> [type |-> "ConnectionError", msg |-> "no response"],
          data |-> Body(up, LibrariesPath)]
    ELSE IF StatusError(ans.status) # NoExc
    THEN [exc |-> StatusError(ans.status), data |-> Body(up, LibrariesPath)]
    ELSE [exc |-> NoExc, data |-> Body(up, path)]

\* the first library whose lowered name is the lowered requested name
FirstMatch(libs, name) ==
    LET hits == {i \in 1..Len(libs) : LowerStr(libs[i].name) = LowerStr(name)}
    IN IF hits = {} THEN 0 ELSE CHOOSE i \in hits : \A j \in hits : i <= j

\* _get_library_id(name) on a client whose cache is cache
_get_library_id(cache, name, up, ans) ==
    IF Truthy(cache)
    THEN [ret |-> cache, exc |-> NoExc, cache |-> cache, reqs |-> <<>>]
    ELSE LET r == _get(up, LibrariesPath, ans)
             sent == <<[path |-> LibrariesPath, ans |-> ans]>>
             hit == FirstMatch(r.data.libraries, name)
         IN IF r.exc # NoExc
            THEN [ret |-> None, exc |-> r.exc, cache |-> cache, reqs |-> sent]
            ELSE IF hit # 0
            THEN [ret |-> r.data.libraries[hit].id, exc |-> NoExc,
                  cache |-> r.data.libraries[hit].id, reqs |-> sent]
            ELSE [ret |-> None,
                  exc |-> [type |-> "RuntimeError", msg |-> "library not found"],
                  cache |-> cache, reqs |-> sent]

\* a or b of Python
Or2(a, b) == IF Truthy(a) THEN a ELSE b

\* media_type = item.get("mediaType") or item.get("type")
MediaKind(item) == Or2(item.mediaType, item.type)

\* a filter that wants the kind to be given
KindGiven(media_type) == media_type \in {K_book, K_audiobook}

\* media_type in ("book", "audiobook", None)
KindAccepted(media_type) == media_type \in {K_book, K_audiobook, None}

\* the loop of get_all_items over items
RECURSIVE FilterItems(_, _)
FilterItems(items, out) ==
    IF items = <<>>
    THEN out
    ELSE FilterItems(Tail(items),
                     IF KindAccepted(MediaKind(Head(items)))
                     THEN Append(out, Head(items))
                     ELSE out)

\* get_all_items() on a client whose cache is cache
get_all_items(cache, up, ans1, ans2) ==
    LET l == _get_library_id(cache, DefaultName, up, ans1)
    IN IF l.exc # NoExc
       THEN [ret |-> <<>>, exc |-> l.exc, cache |-> l.cache, reqs |-> l.reqs]
       ELSE LET r == _get(up, ItemsPath(l.ret), ans2)
                sent == Append(l.reqs, [path |-> ItemsPath(l.ret), ans |-> ans2])
            IN IF r.exc # NoExc
               THEN [ret |-> <<>>, exc |-> r.exc, cache |-> l.cache, reqs |-> sent]
               ELSE [ret |-> FilterItems(r.data.results, <<>>), exc |-> NoExc,
                     cache |-> l.cache, reqs |-> sent]

\* client = BookshelfClient(base_url, api_key): the cache starts unset
NewClient(t) ==
    /\ pc[t] = "idle"
    /\ loc[t].op \in {"none", "new", "resolve", "list"}
    /\ SetLoc(t, [LocInit EXCEPT !.op = "new"])
    /\ UNCHANGED <<pc, storeVars, schedVars, histVars>>

\* client._get_library_id(name), the upstream answering ans
ResolveLibraryId(t, name, ans) ==
    /\ pc[t] = "idle"
    /\ loc[t].op \in {"new", "resolve", "list"}
    /\ LET r == _get_library_id(loc[t].cache, name, library, ans)
       IN SetLoc(t, [LocInit EXCEPT !.op = "resolve", !.name = name,
                                    !.had = loc[t].cache, !.cache = r.cache,
                                    !.ret = r.ret, !.err = r.exc,
                                    !.reqs = r.reqs])
    /\ UNCHANGED <<pc, storeVars, schedVars, histVars>>

\* client.get_all_items(), the upstream answering ans1 and then ans2
GetAllItems(t, ans1, ans2) ==
    /\ pc[t] = "idle"
    /\ loc[t].op \in {"new", "resolve", "list"}
    /\ LET r == get_all_items(loc[t].cache, library, ans1, ans2)
       IN SetLoc(t, [LocInit EXCEPT !.op = "list", !.name = DefaultName,
                                    !.had = loc[t].cache, !.cache = r.cache,
                                    !.ret = r.ret, !.err = r.exc,
                                    !.reqs = r.reqs])
    /\ UNCHANGED <<pc, storeVars, schedVars, histVars>>

\* the public operation on an upstream of any item list
InitItems ==
    /\ InitCommon
    /\ library \in {Upstream(libs, res) :
                       libs \in UpstreamLibraries,
                       res \in SeqsUpTo(ListedItems, MaxResults)}

NextItems ==
    \/ \E t \in Callers : NewClient(t)
    \/ \E t \in Callers, ans1 \in Answers, ans2 \in Answers : GetAllItems(t, ans1, ans2)

SpecItems == InitItems /\ [][NextItems]_vars

\* the client's operations, the library lookup called with any name
InitClient ==
    /\ InitCommon
    /\ library \in {Upstream(libs, res) :
                       libs \in UpstreamLibraries,
                       res \in SeqsUpTo(ListedItems, 1)}

NextClient ==
    \/ \E t \in Callers : NewClient(t)
    \/ \E t \in Callers, name \in AskedNames, ans \in Answers :
           ResolveLibraryId(t, name, ans)
    \/ \E t \in Callers, ans1 \in Answers, ans2 \in Answers : GetAllItems(t, ans1, ans2)

SpecClient == InitClient /\ [][NextClient]_vars

\* ------------------------------------------------------------------ process
\* the server process as its HTTP interface drives it: the startup hook, then
\* requests to /autosync/status, /autosync/configure and /autosync/sync-now

\* a startup hook that starts the worker whatever the run-state says
StartupAlwaysStarts == TRUE

\* on_startup: state = get_autosync_status(); if state["enabled"]
StartupWantsWorker == AUTOSYNC_STATE.enabled

\* on_startup: start_autosync_thread when enabled and the Audiobookshelf
\* settings are there
OnStartup(c) ==
    /\ pc[c] = "boot"
    /\ \/ /\ StartupWantsWorker
          /\ \E k \in Creds :
               /\ SetLoc(c, [LocInit EXCEPT !.op = "startup", !.creds = k])
               /\ Goto(c, "start_check")
       \/ /\ SetLoc(c, [LocInit EXCEPT !.op = "startup"])
          /\ Goto(c, "idle")
    /\ UNCHANGED <<storeVars, schedVars, histVars>>

\* GET /autosync/status: get_autosync_status()
GetAutosyncStatus(c) ==
    /\ pc[c] = "idle"
    /\ SetLoc(c, [LocInit EXCEPT !.op = "status", !.resp = "200",
                                 !.snapshot = AUTOSYNC_STATE])
    /\ UNCHANGED <<pc, storeVars, schedVars, histVars>>

\* values of interval_hours the configure requests carry
ProcessIntervals == {0, 1, 2}

\* what settings_store.get_abs_config hands to a request: the Audiobookshelf
\* settings as they are when the request is served, which may have changed
\* since the request before it
ProcessCreds == {"k1", "k2"}

\* the process before its startup hook has run; the upstream holds no item
InitProcess ==
    /\ InitModules
    /\ library = <<>>
    /\ pc = [t \in Threads |-> IF t \in Callers THEN "boot"
                                ELSE IF t \in Requests THEN "idle" ELSE "unborn"]

NextProcess ==
    \/ \E c \in Callers : OnStartup(c) \/ GetAutosyncStatus(c)
    \/ \E c \in Callers, e \in BOOLEAN, i \in ProcessIntervals, k \in ProcessCreds :
           ConfigureAutosync(c, e, i, k)
    \/ \E c \in Callers : StartCheck(c) \/ StartClear(c) \/ StartLaunch(c) \/ StopSet(c)
    \/ \E c \in Callers, k \in ProcessCreds : TriggerSyncNow(c, k)
    \/ \E t \in Callers \cup Workers : CycleStep(t) \/ ImportReturn(t)
    \/ \E w \in Workers : WorkerLoop(w)
    \/ \E w \in Workers : WorkerWaitTimeout(w)

SpecProcess == InitProcess /\ [][NextProcess]_vars

\* ------------------------------------------------------------------ claims
ImportLabels == {"imp_item", "author_q", "author_ins", "book_q", "book_fill", "book_ins",
                 "narr_begin", "narr_loop", "narr_ins", "emit"}

\* thread t made the step
Moved(t) == pc'[t] # pc[t] \/ loc'[t] # loc[t]

HasTitleAndAuthors(item) ==
    /\ item.title # None
    /\ Len(item.title) > 0
    /\ Len(item.authors) > 0

RECURSIVE WouldImport(_)
WouldImport(items) ==
    IF items = <<>> THEN <<>>
    ELSE LET rest == WouldImport(Tail(items))
             item == Head(items)
         IN IF HasTitleAndAuthors(item)
            THEN <<[action |-> "would_import", book_id |-> 0, title |-> item.title,
                    authors |-> item.authors, author |-> None,
                    narrators |-> item.narrators, narrator_names |-> {},
                    abs_cover_url |-> item.abs_cover_url]>> \o rest
            ELSE rest

\* C1: a live import repeated directly after itself leaves the store as the
\* first run left it: no row or association is added or removed
C1_Idempotent == twice.valid => twice.second = twice.first

\* C5: while a dry run is under way every table is as the run found it, the run
\* never reaches a resolve step and raises nothing, and it returns one
\* "would_import" outcome, in order, for each item that has a title and an author
C5_DryRunFrame ==
    \A t \in Callers :
        (loc[t].ctx = "endpoint" /\ loc[t].dry) =>
            /\ (pc[t] \in ImportLabels => Store = loc[t].start)
            /\ pc[t] \in {"imp_item", "idle"}
            /\ loc[t].resp # "500"
            /\ (pc[t] = "idle" => loc[t].results = WouldImport(loc[t].items))

C5_Witness ==
    \E t \in Callers :
        /\ pc[t] = "idle" /\ loc[t].ctx = "endpoint" /\ loc[t].dry
        /\ loc[t].resp = "200"
        /\ Len(loc[t].results) = 1 /\ Len(loc[t].items) = 2
        /\ authors # {} /\ books = {}

\* C6: no two stored narrators, no two books of one author, and no two authors
\* of which the import created one, have names that differ only in case
C6_CaseInsensitiveIdentity ==
    /\ \A n1, n2 \in narrators : SameIgnoringCase(n1.name, n2.name) => n1 = n2
    /\ \A b1, b2 \in books :
          (b1.author_id = b2.author_id /\ SameIgnoringCase(b1.title, b2.title)) => b1 = b2
    /\ \A a1, a2 \in authors :
          (a1.ol_id = None /\ SameIgnoringCase(a1.name, a2.name)) => a1 = a2

\* C7: the step that meets an item without a title or without authors changes
\* no table and adds no outcome, and goes on to the next item; a run that
\* returns has one outcome for each item that has both
C7_SkippedItem ==
    /\ [](\A t \in Callers :
            (pc[t] = "idle" /\ loc[t].resp = "200") =>
                Len(loc[t].results) = Len(WouldImport(loc[t].items)))
    /\ [][\A t \in Callers :
            (/\ pc[t] = "imp_item"
             /\ loc[t].idx <= Len(loc[t].items)
             /\ ~HasTitleAndAuthors(loc[t].items[loc[t].idx])
             /\ Moved(t))
            => /\ Store' = Store
               /\ loc'[t].results = loc[t].results
               /\ loc'[t].idx = loc[t].idx + 1
               /\ pc'[t] = "imp_item"]_vars

C7_Witness ==
    \E t \in Callers :
        /\ pc[t] = "idle" /\ loc[t].resp = "200" /\ ~loc[t].dry
        /\ Len(loc[t].items) = 2
        /\ ~HasTitleAndAuthors(loc[t].items[1])
        /\ Len(loc[t].results) = 1
        /\ books # {}

\* C8: a stored override cover that is set never changes; and once resolve_book
\* has returned an existing book it found with no override cover, for an item
\* that has a cover, the stored override cover is the item's
C8_CoverWriteOnce ==
    /\ [](\A t \in Callers :
            (/\ pc[t] \in {"narr_begin", "narr_loop", "narr_ins", "emit"}
             /\ loc[t].existing # 0
             /\ loc[t].existing_cover = None
             /\ loc[t].items[loc[t].idx].abs_cover_url # None)
            => BookById(loc[t].book).abs_cover_url = loc[t].items[loc[t].idx].abs_cover_url)
    /\ [][\A b \in books :
            b.abs_cover_url # None =>
                \E b2 \in books' : b2.id = b.id /\ b2.abs_cover_url = b.abs_cover_url]_vars

\* an item with cover 2 resolved to a book whose cover 1 was backfilled
C8_Witness ==
    \E t \in Callers :
        /\ pc[t] = "emit"
        /\ loc[t].existing # 0
        /\ loc[t].existing_cover = C_1
        /\ loc[t].items[loc[t].idx].abs_cover_url = C_2
        /\ prev.valid
        /\ \E b \in prev.after.books : b.id = loc[t].book /\ b.abs_cover_url = C_1

\* C2: when the last control call to return was configure_autosync with
\* enabled=True and no control call is under way, a worker thread is alive
C2_EnabledEnsuresWorker ==
    (/\ lastCtl = "configure_on"
     /\ \A c \in Callers :
            pc[c] \notin {"start_check", "start_clear", "start_launch", "stop_set"})
    => \E w \in Workers : alive[w]

\* C3: a live worker with the stop signal raised ends (or a start clears the
\* signal), without the timeout of its wait being owed
C3_StopEndsWorker ==
    \A w \in Workers :
        (alive[w] /\ AUTOSYNC_STOP_EVENT) ~> (~alive[w] \/ ~AUTOSYNC_STOP_EVENT)

\* a worker that a stop woke from a six-hour wait
C3_Witness ==
    \E w \in Workers :
        /\ pc[w] = "exited"
        /\ loc[w].woke
        /\ loc[w].sleep_seconds = 6 * 3600
        /\ nCycles = 1

\* C4: no exception of a cycle leaves run_sync_now: no worker is ended by one and
\* no trigger_sync_now call has one propagated; a step that raises goes to the
\* except clause, which stores {error} in last_result and returns, and a
\* worker's return from the cycle-runner goes to its wait
C4_CycleFailureContained ==
    /\ [](\A t \in Threads : pc[t] # "crashed" /\ loc[t].resp # "propagated")
    /\ [][\A t \in Threads :
            /\ (loc[t].ctx = "cycle" /\ loc'[t].ctx = "cycle"
                /\ loc'[t].exc # "" /\ loc[t].exc = "")
               => pc'[t] = "cyc_exc"
            /\ (pc[t] = "cyc_exc" /\ Moved(t))
               => /\ AUTOSYNC_STATE'.last_result.kind = "error"
                  /\ AUTOSYNC_STATE'.last_result.error = loc[t].exc
                  /\ pc'[t] = "cyc_ret"
            /\ (pc[t] = "cyc_ret" /\ Moved(t))
               => IF t \in Workers
                  THEN pc'[t] = "loop_sleep" /\ alive'[t]
                  ELSE pc'[t] = "idle" /\ loc'[t].resp = "200"]_vars

\* a worker whose cycle failed on the store is running a further cycle
C4_Witness ==
    \E w \in Workers :
        /\ loc[w].failed
        /\ pc[w] = "cyc_fetch"
        /\ alive[w]
        /\ AUTOSYNC_STATE.last_result.error = "IntegrityError"

\* C9: after two trigger_sync_now calls, one after the other, on a store that
\* was empty, with no worker and nothing else writing, and one item upstream
\* that both fetches returned: one author, one book, one narrator, neither
\* cycle failed, and the same book_id in both outcomes
C9_TwoTriggers ==
    (/\ Len(trigLog) = 2
     /\ trigLog[1].empty_start
     /\ Len(library) = 1
     /\ \A i \in 1..2 : trigLog[i].exc \notin {"RuntimeError", "HTTPError"}
     /\ AUTOSYNC_THREAD = "none"
     /\ \A a \in authors : a.ol_id = None)
    => /\ Cardinality(authors) = 1
       /\ Cardinality(books) = 1
       /\ Cardinality(narrators) = 1
       /\ trigLog[1].exc = "" /\ trigLog[2].exc = ""
       /\ Len(trigLog[1].book_ids) = 1
       /\ trigLog[2].book_ids = trigLog[1].book_ids

\* C10: a trigger_sync_now call runs one cycle, live; none of its steps changes
\* enabled or interval_hours, the stop signal, or which workers exist and where
\* they stand; on success it stores the time in last_run and
\* {imported_count, timestamp} in last_result
C10_TriggerNow ==
    /\ [](\A c \in Callers :
            loc[c].op = "trigger" => (~loc[c].dry /\ loc[c].cycles = 1))
    /\ [][\A c \in Callers :
            (loc'[c].op = "trigger" /\ Moved(c)) =>
                /\ AUTOSYNC_STATE'.enabled = AUTOSYNC_STATE.enabled
                /\ AUTOSYNC_STATE'.interval_hours = AUTOSYNC_STATE.interval_hours
                /\ AUTOSYNC_STOP_EVENT' = AUTOSYNC_STOP_EVENT
                /\ AUTOSYNC_THREAD' = AUTOSYNC_THREAD
                /\ alive' = alive
                /\ \A w \in Workers : pc'[w] = pc[w]
                /\ (pc[c] = "cyc_w1" => AUTOSYNC_STATE'.last_run = clock)
                /\ (pc[c] = "cyc_w2" =>
                       AUTOSYNC_STATE'.last_result =
                           [kind |-> "ok", imported_count |-> Len(loc[c].results),
                            timestamp |-> AUTOSYNC_STATE.last_run, error |-> ""])
                /\ (pc[c] \in {"cyc_fetch"} \cup ImportLabels =>
                       AUTOSYNC_STATE' = AUTOSYNC_STATE)]_vars

\* a trigger_sync_now call that imported a book returns while auto-sync is
\* disabled and no worker exists
C10_Witness ==
    \E c \in Callers :
        /\ loc[c].op = "trigger" /\ pc[c] = "idle"
        /\ loc[c].retval.kind = "ok"
        /\ loc[c].retval.imported_count = 1
        /\ loc[c].retval.timestamp = AUTOSYNC_STATE.last_run
        /\ ~AUTOSYNC_STATE.enabled
        /\ \A w \in Workers : ~alive[w]

\* C11: nothing keeps a cycle from beginning while another is in flight: with
\* a worker inside run_sync_now an idle caller can begin trigger_sync_now, and
\* with a caller inside it an enabled worker at its loop can enter it
C11_NoMutualExclusion ==
    \A c \in Callers, w \in Workers :
        /\ (InCycle(w) /\ pc[c] = "idle" /\ nCycles < MaxCycles)
           => \A k \in Creds : ENABLED TriggerSyncNow(c, k)
        /\ (InCycle(c) /\ pc[w] = "loop_enabled" /\ AUTOSYNC_STATE.enabled)
           => ENABLED WorkerCheckEnabled(w)

\* a trigger_sync_now cycle and a worker's cycle have both imported from the
\* one store and both stand before their writes of last_run / last_result
C11_Witness ==
    \E c \in Callers, w \in Workers :
        /\ InCycle(c) /\ InCycle(w)
        /\ loc[c].op = "trigger"
        /\ pc[c] = "cyc_w1" /\ pc[w] = "cyc_w2"
        /\ Len(loc[c].results) > 0 /\ Len(loc[w].results) > 0

\* C12: no two threads have both looked up the same new author name (or the
\* same new title under one author, or the same new narrator name), both found
\* nothing, and both gone on to create it
C12_SingleDecision ==
    \A t1, t2 \in Threads :
        t1 # t2 =>
            /\ ~(/\ pc[t1] = "author_ins" /\ pc[t2] = "author_ins"
                 /\ SameIgnoringCase(PrimaryAuthor(loc[t1]), PrimaryAuthor(loc[t2])))
            /\ ~(/\ pc[t1] = "book_ins" /\ pc[t2] = "book_ins"
                 /\ loc[t1].author = loc[t2].author
                 /\ SameIgnoringCase(loc[t1].items[loc[t1].idx].title,
                                     loc[t2].items[loc[t2].idx].title))
            /\ ~(/\ pc[t1] = "narr_ins" /\ pc[t2] = "narr_ins"
                 /\ SameIgnoringCase(NarratorName(loc[t1]), NarratorName(loc[t2])))

\* C13: at most one worker thread is alive
C13_OneWorker == Cardinality({w \in Workers : alive[w]}) <= 1

\* C14: with the stop signal raised, a live worker inside a cycle can take its
\* next step and stays in the cycle until run_sync_now returns, which it does
\* only after storing the cycle's result; from there it reads the interval,
\* the wait returns at once and the thread ends, and a worker at the loop's
\* test ends too: it begins no cycle. The signal stays raised while the worker
\* lives
C14_StopMidCycle ==
    /\ [](\A w \in Workers : (alive[w] /\ InCycle(w)) => ENABLED WorkerRun(w))
    /\ [][\A w \in Workers :
            (AUTOSYNC_STOP_EVENT /\ alive[w]) =>
                /\ AUTOSYNC_STOP_EVENT'
                /\ Moved(w) =>
                    /\ InCycle(w) =>
                          /\ alive'[w]
                          /\ InCycle(w)' \/ (pc[w] = "cyc_ret" /\ pc'[w] = "loop_sleep")
                    /\ (pc'[w] = "cyc_ret" /\ pc[w] # "cyc_ret") =>
                          \/ /\ pc[w] = "cyc_w2"
                             /\ AUTOSYNC_STATE'.last_result.kind = "ok"
                             /\ AUTOSYNC_STATE'.last_result.imported_count
                                    = Len(loc[w].results)
                          \/ /\ pc[w] = "cyc_exc"
                             /\ AUTOSYNC_STATE'.last_result.kind = "error"
                    /\ pc[w] = "loop_sleep" => pc'[w] = "loop_wait"
                    /\ pc[w] = "loop_wait" => pc'[w] = "exited" /\ ~alive'[w]
                    /\ pc[w] = "loop_head" => pc'[w] = "exited" /\ ~alive'[w]]_vars

\* the stop signal is up while a worker's cycle, which imported a book, is
\* about to store its result
C14_Witness ==
    \E w \in Workers :
        /\ AUTOSYNC_STOP_EVENT /\ alive[w]
        /\ InCycle(w) /\ pc[w] = "cyc_w2"
        /\ Len(loc[w].results) > 0
        /\ lastCtl = "configure_off"

\* C15: a live run of the import endpoint that has ended went through every
\* item of its batch and answered with the outcomes, whatever happened to
\* single items
C15_ItemsIndependent ==
    \A t \in Callers :
        (loc[t].ctx = "endpoint" /\ ~loc[t].dry /\ pc[t] = "idle") =>
            /\ loc[t].idx > Len(loc[t].items)
            /\ loc[t].resp = "200"

\* the parts of a comma-separated field, trimmed, the empty ones left out
TrimmedNonEmptyParts(field) ==
    LET parts == Split(field, ",")
        kept == {i \in 1..Len(parts) : \E j \in 1..Len(parts[i]) : parts[i][j] # " "}
        Nth(k) == CHOOSE i \in kept : Cardinality({j \in kept : j <= i}) = k
    IN [k \in 1..Cardinality(kept) |-> Strip(parts[Nth(k)])]

\* the authors C16 states; names are taken up to surrounding white space, and
\* a source counts when it yields an author (a non-empty name)
ClaimedAuthors(item) ==
    LET given == {i \in 1..Len(item.authors) :
                     item.authors[i] # None /\ Strip(item.authors[i]) # <<>>}
        Nth(k) == CHOOSE i \in given : Cardinality({j \in given : j <= i}) = k
        fromField == IF Truthy(item.authorName)
                     THEN TrimmedNonEmptyParts(item.authorName) ELSE <<>>
    IN IF given # {}
       THEN [k \in 1..Cardinality(given) |-> Strip(item.authors[Nth(k)])]
       ELSE IF fromField # <<>>
       THEN fromField
       ELSE IF DashAt(item.relPath) # {} /\ Strip(BeforeDash(item.relPath)) # <<>>
       THEN <<Strip(BeforeDash(item.relPath))>>
       ELSE <<>>

\* C16: the authors normalize_item returns are those of the first source, in
\* the order structured list, authorName, relPath, that yields an author: the
\* non-empty structured names; else the trimmed non-empty parts of
\* authorName; else the trimmed text before the first " - " of relPath; else
\* none
C16_AuthorPrecedence ==
    \A t \in Callers :
        loc[t].op = "normalize" => loc[t].norm.authors = ClaimedAuthors(loc[t].raw)

\* an item that has only the id given
BlankItem(id) == RawItem(id, None, None, None, <<>>, None, None, <<>>)

\* the narrators and the cover C17 states
ClaimedNarratorsAndCover(l) ==
    /\ l.norm.narrators = IF Truthy(l.raw.narratorName)
                          THEN TrimmedNonEmptyParts(l.raw.narratorName) ELSE <<>>
    /\ (l.norm.abs_cover_url = None) <=> ~Truthy(l.raw.id)
    /\ l.norm.abs_cover_url = normalize_item(l.base_url, BlankItem(l.raw.id)).abs_cover_url

\* C17 as stated: the title is the first non-empty of metadata title, item
\* title and item name, and null if there is none; narrators and cover as above
C17_TitleNullIfNone ==
    \A t \in Callers :
        loc[t].op = "normalize" =>
            LET r == loc[t].raw
            IN /\ loc[t].norm.title = IF Truthy(r.m_title) THEN r.m_title
                                      ELSE IF Truthy(r.title) THEN r.title
                                      ELSE IF Truthy(r.name) THEN r.name
                                      ELSE None
               /\ ClaimedNarratorsAndCover(loc[t])

\* C17, amended: the title is the first non-empty of metadata title, item
\* title and item name, and when there is none it is the item name as it
\* came, null or empty; narrators and cover as above; the step that normalizes
\* changes nothing but the caller's locals
C17_TitleNarratorsCover ==
    /\ [](\A t \in Callers :
            loc[t].op = "normalize" =>
                LET r == loc[t].raw
                IN /\ loc[t].norm.title = IF Truthy(r.m_title) THEN r.m_title
                                          ELSE IF Truthy(r.title) THEN r.title
                                          ELSE r.name
                   /\ ~Truthy(loc[t].norm.title) =>
                          (~Truthy(r.m_title) /\ ~Truthy(r.title) /\ ~Truthy(r.name))
                   /\ ClaimedNarratorsAndCover(loc[t]))
    /\ [][\A t \in Callers :
            loc'[t].op = "normalize" =>
                UNCHANGED <<pc, storeVars, schedVars, histVars>>]_vars

\* an item with an empty name and no other title, two narrators in a field
\* with an empty part, and an id: the title is the empty name
C17_Witness ==
    \E t \in Callers :
        /\ loc[t].op = "normalize"
        /\ loc[t].raw.name = S_empty /\ loc[t].norm.title = S_empty
        /\ loc[t].raw.narratorName = <<"a", ",", " ", "b">>
        /\ loc[t].norm.narrators = <<<<"a">>, <<"b">>>>
        /\ loc[t].norm.abs_cover_url = <<"h", "/api/items/", "i", "/cover">>
        /\ loc[t].base_url = <<"h", "/">>

\* C18: a get_all_items() that returns has returned the items of a library
\* named "audiobooks" (ignoring case) whose media kind is "book", "audiobook"
\* or absent, each once and in the upstream's order, and no other item
C18_ListItems ==
    \A t \in Callers :
        (loc[t].op = "list" /\ loc[t].err = NoExc) =>
            \E i \in 1..Len(library.libraries) :
                /\ SameIgnoringCase(library.libraries[i].name, DefaultName)
                /\ loc[t].ret =
                       SelectSeq(library.items[library.libraries[i].id],
                                 LAMBDA it : MediaKind(it) \in {K_book, K_audiobook, None})

\* a listing of two upstream items that kept the one without a kind and left
\* out the podcast before it
C18_Witness ==
    \E t \in Callers :
        /\ loc[t].op = "list"
        /\ loc[t].err = NoExc
        /\ Len(loc[t].reqs) = 2
        /\ loc[t].reqs[2].path = ItemsPath(<<"L1">>)
        /\ Len(library.items[<<"L1">>]) = 2
        /\ MediaKind(library.items[<<"L1">>][1]) = K_podcast
        /\ library.items[<<"L1">>][2].mediaType = None
        /\ library.items[<<"L1">>][2].type = None
        /\ loc[t].ret = <<library.items[<<"L1">>][2]>>

\* the libraries of the upstream whose name is name, ignoring case
Named(name) ==
    {i \in 1..Len(library.libraries) :
        SameIgnoringCase(library.libraries[i].name, name)}

\* C19: _get_library_id(name) returns the id of a library whose name is name
\* ignoring case, on every call, also when another name's id is cached; with
\* no such library it raises the not-found error and leaves the cache unset;
\* with an id cached it returns that id and sends no request
C19_ResolveCollectionId ==
    \A t \in Callers :
        loc[t].op = "resolve" =>
            /\ loc[t].err = NoExc =>
                   \E i \in Named(loc[t].name) :
                       loc[t].ret = library.libraries[i].id
            /\ (/\ ~Truthy(loc[t].had)
                /\ loc[t].reqs # <<>>
                /\ loc[t].reqs[1].ans = [answered |-> TRUE, status |-> 200]
                /\ Named(loc[t].name) = {}) =>
                   /\ loc[t].err = [type |-> "RuntimeError", msg |-> "library not found"]
                   /\ loc[t].cache = None
            /\ Truthy(loc[t].had) =>
                   /\ loc[t].err = NoExc
                   /\ loc[t].ret = loc[t].had
                   /\ loc[t].cache = loc[t].had
                   /\ loc[t].reqs = <<>>

\* the three error outcomes C20 names
AuthError == [type |-> "RuntimeError", msg |-> "unauthorized"]
NotFoundError == [type |-> "RuntimeError", msg |-> "resource not found"]
TransportErrors ==
    {[type |-> "HTTPError", msg |-> "status"],
     [type |-> "ConnectionError", msg |-> "no response"]}

\* an answer that is a failure of the upstream
Failure(ans) == ~ans.answered \/ ans.status >= 400

\* C20: a client operation sends each of its requests at most once; a request
\* that fails is its last, and the operation raises the error of that
\* failure: the auth error for a 401, the not-found error for a 404, a
\* transport error for any other error status or a missing response; the
\* three outcomes differ from one another
C20_FailureMapping ==
    /\ AuthError # NotFoundError
    /\ AuthError \notin TransportErrors
    /\ NotFoundError \notin TransportErrors
    /\ \A t \in Callers :
           loc[t].op \in {"resolve", "list"} =>
               /\ \A i, j \in 1..Len(loc[t].reqs) :
                      loc[t].reqs[i].path = loc[t].reqs[j].path => i = j
               /\ \A i \in 1..Len(loc[t].reqs) :
                      Failure(loc[t].reqs[i].ans) =>
                          /\ i = Len(loc[t].reqs)
                          /\ loc[t].reqs[i].ans.answered /\ loc[t].reqs[i].ans.status = 401
                                 => loc[t].err = AuthError
                          /\ loc[t].reqs[i].ans.answered /\ loc[t].reqs[i].ans.status = 404
                                 => loc[t].err = NotFoundError
                          /\ (~loc[t].reqs[i].ans.answered
                                 \/ loc[t].reqs[i].ans.status \notin {401, 404})
                                 => loc[t].err \in TransportErrors
               /\ (\A i \in 1..Len(loc[t].reqs) : ~Failure(loc[t].reqs[i].ans)) =>
                      loc[t].err \notin {AuthError, NotFoundError} \cup TransportErrors

\* a listing whose library lookup succeeded and whose items request was
\* answered 401: two requests sent, the auth error raised
C20_Witness ==
    \E t \in Callers :
        /\ loc[t].op = "list"
        /\ Len(loc[t].reqs) = 2
        /\ loc[t].reqs[1].ans.status = 200
        /\ loc[t].reqs[2].ans = [answered |-> TRUE, status |-> 401]
        /\ loc[t].err = AuthError

\* C21: the run-state starts as enabled=false, interval_hours=6, last_run and
\* last_result null, with no worker; a worker is launched only by a
\* configure call with enabled=true, and enabled becomes true only by such a
\* call, so no worker and no scheduled cycle runs before it; a status request
\* returns the run-state as it is and changes neither the run-state nor any
\* worker
C21_InitialRunState ==
    /\ AUTOSYNC_STATE = [enabled |-> FALSE, interval_hours |-> 6, last_run |-> 0,
                         last_result |-> NoResult]
    /\ AUTOSYNC_THREAD = "none"
    /\ \A w \in Workers : ~alive[w] /\ pc[w] = "unborn"
    /\ [][/\ \A w \in Workers :
                (~alive[w] /\ alive'[w]) =>
                    \E c \in Callers : /\ pc[c] = "start_launch"
                                       /\ loc[c].op = "configure"
                                       /\ loc[c].enabled
          /\ (~AUTOSYNC_STATE.enabled /\ AUTOSYNC_STATE'.enabled) =>
                \E c \in Callers : loc'[c].op = "configure" /\ loc'[c].enabled
          /\ \A w \in Workers :
                (pc[w] # "cyc_fetch" /\ pc'[w] = "cyc_fetch") => alive[w]
          /\ \A c \in Callers :
                (loc'[c].op = "status" /\ loc'[c] # loc[c]) =>
                    /\ loc'[c].snapshot = AUTOSYNC_STATE
                    /\ UNCHANGED <<schedVars, storeVars>>
                    /\ \A w \in Workers : pc'[w] = pc[w] /\ loc'[w] = loc[w]
         ]_vars

\* a status request answered while a worker is alive, after a cycle has
\* recorded its run
C21_Witness ==
    \E c \in Callers, w \in Workers :
        /\ loc[c].op = "status"
        /\ loc[c].snapshot = AUTOSYNC_STATE
        /\ loc[c].snapshot.enabled
        /\ loc[c].snapshot.last_run # 0
        /\ loc[c].snapshot.last_result.kind = "ok"
        /\ alive[w]

\* a worker takes the step that begins a scheduled cycle
BeginsCycle(w) == pc[w] # "cyc_fetch" /\ pc'[w] = "cyc_fetch"

\* what C22 says of every cycle boundary: the worker has found the stop
\* signal clear and then enabled true
BoundaryChecks(w) ==
    /\ (pc[w] = "loop_head" /\ pc'[w] = "loop_enabled") => ~AUTOSYNC_STOP_EVENT
    /\ (pc[w] # "loop_enabled" /\ pc'[w] = "loop_enabled") => pc[w] = "loop_head"
    /\ BeginsCycle(w) => (pc[w] = "loop_enabled" /\ AUTOSYNC_STATE.enabled)

\* C22 as stated: a scheduled cycle begins only after the worker found the
\* stop signal clear and enabled true at that boundary; the worker's first
\* cycle follows its launch with no wait before it; between two consecutive
\* cycles of a worker lies one wait, ended by the timer
C22_LoopOrder ==
    [][\A w \in Workers :
          /\ BoundaryChecks(w)
          /\ (BeginsCycle(w) /\ loc[w].cycles = 0) => loc[w].waited = 0
          /\ (BeginsCycle(w) /\ loc[w].cycles >= 1) =>
                 (loc[w].waited = 1 /\ ~loc[w].woke)
      ]_vars

\* C22, amended: the boundary checks as stated; a launched worker stands at
\* its first boundary without having waited, and begins its first cycle there
\* when it finds enabled true (when it finds enabled false it waits first);
\* between two consecutive cycles of a worker lies at least one wait, and
\* every such wait was ended by the timer
C22_LoopOrderWhenEnabled ==
    [][\A w \in Workers :
          /\ BoundaryChecks(w)
          /\ (~alive[w] /\ alive'[w]) =>
                 (pc'[w] = "loop_head" /\ loc'[w].waited = 0 /\ loc'[w].cycles = 0)
          /\ (pc[w] = "loop_enabled" /\ pc'[w] # "loop_enabled"
                 /\ loc[w].cycles = 0 /\ loc[w].waited = 0) =>
                 pc'[w] = (IF AUTOSYNC_STATE.enabled THEN "cyc_fetch" ELSE "loop_sleep")
          /\ (BeginsCycle(w) /\ loc[w].cycles >= 1) =>
                 (loc[w].waited >= 1 /\ ~loc[w].woke)
      ]_vars

\* a worker in its second cycle, one wait after its first
C22_Witness ==
    \E w \in Workers :
        /\ alive[w]
        /\ pc[w] = "cyc_fetch"
        /\ loc[w].cycles = 2
        /\ loc[w].waited = 0

\* C23: a configure call with enabled=true that finds the worker alive
\* writes enabled and interval_hours and nothing else: its start finds the
\* thread alive and returns, no worker is launched, no worker is moved; the
\* timeout of a wait is the interval read when the wait began and stays so
\* while the wait lasts, so a new interval is first used by the wait begun
\* after the next cycle boundary
C23_ConfigureWhileRunning ==
    [][/\ \A c \in Callers :
            (/\ \E w \in Workers : alive[w]
             /\ loc'[c].op = "configure"
             /\ loc'[c].enabled
             /\ pc[c] \in {"idle", "start_check"}
             /\ pc'[c] # pc[c]) =>
                /\ pc'[c] = (IF pc[c] = "idle" THEN "start_check" ELSE "idle")
                /\ \E i \in ProcessIntervals :
                       AUTOSYNC_STATE' =
                           IF pc[c] = "idle"
                           THEN [AUTOSYNC_STATE EXCEPT !.enabled = TRUE,
                                                       !.interval_hours = i]
                           ELSE AUTOSYNC_STATE
                /\ UNCHANGED <<AUTOSYNC_THREAD, AUTOSYNC_STOP_EVENT, alive, storeVars>>
                /\ \A w \in Workers : pc'[w] = pc[w] /\ loc'[w] = loc[w]
       /\ \A w \in Workers :
            /\ (pc[w] = "loop_sleep" /\ pc'[w] = "loop_wait") =>
                   loc'[w].sleep_seconds = AUTOSYNC_STATE.interval_hours * 3600
            /\ (pc[w] = "loop_wait" /\ pc'[w] = "loop_wait") =>
                   loc'[w].sleep_seconds = loc[w].sleep_seconds
      ]_vars

\* a configure call with a new interval has returned while the worker waits:
\* the worker is the same, and its wait still has the interval it read
C23_Witness ==
    \E c \in Callers, w \in Workers :
        /\ pc[c] = "idle"
        /\ loc[c].op = "configure"
        /\ loc[c].enabled
        /\ lastCtl = "configure_on"
        /\ AUTOSYNC_STATE.interval_hours = 2
        /\ AUTOSYNC_THREAD = w
        /\ alive[w]
        /\ pc[w] = "loop_wait"
        /\ loc[w].sleep_seconds = 3600
        /\ \A v \in Workers \ {w} : ~alive[v]

\* C24: a lookup of resolve_author, resolve_book or resolve_narrators hands
\* back a stored row only if the row's name (title) is the incoming one up to
\* letter case; for any other incoming name, one holding % or _ included, the
\* lookup finds nothing and a new row is made
C24_ExactLookup ==
    [][\A t \in Callers :
          /\ (pc[t] = "author_q" /\ pc'[t] = "book_q") =>
                 SameIgnoringCase(AuthorById(loc'[t].author).name, PrimaryAuthor(loc[t]))
          /\ (pc[t] = "book_q" /\ pc'[t] \in {"book_fill", "narr_begin"}) =>
                 SameIgnoringCase(BookById(loc'[t].book).title,
                                  loc[t].items[loc[t].idx].title)
          /\ (pc[t] = "narr_loop" /\ pc'[t] = "narr_loop"
                 /\ loc'[t].nidx = loc[t].nidx + 1) =>
                 \A n \in narrators :
                     n.id \in loc'[t].pending \ loc[t].pending =>
                         SameIgnoringCase(n.name, NarratorName(loc[t]))
      ]_vars

\* C25: the insert resolve_author makes for a primary author not in the
\* store succeeds: it adds exactly one Author row, with monitored=true and
\* neither external id nor image, and the import goes on to the book; the
\* Book row resolve_book inserts has no external id and carries the incoming
\* override cover
C25_NewAuthorAccepted ==
    [][\A t \in Callers :
          /\ (pc[t] = "author_ins" /\ pc'[t] # "author_ins") =>
                 /\ pc'[t] = "book_q"
                 /\ \E row \in authors' \ authors :
                        /\ authors' = authors \cup {row}
                        /\ row.name = PrimaryAuthor(loc[t])
                        /\ row.monitored
                        /\ row.ol_id = None
                        /\ row.image_url = None
                        /\ loc'[t].author = row.id
          /\ (pc[t] = "book_ins" /\ pc'[t] = "narr_begin") =>
                 \E row \in books' \ books :
                     /\ books' = books \cup {row}
                     /\ row.ol_id = None
                     /\ row.abs_cover_url = loc[t].items[loc[t].idx].abs_cover_url
      ]_vars

\* the first author of the item thread t is at, trimmed
FirstListed(t) == Strip(loc[t].items[loc[t].idx].authors[1])

\* C26: for each item a live import looks up one author name, the first of
\* the list, trimmed: it goes on with a stored author that name matches, or
\* inserts one row of that name when none matches; the book it resolves or
\* inserts belongs to that author; an item is taken through the author step
\* once, so it adds at most one Author and at most one Book, and no row for a
\* later author of the list
C26_SinglePrimaryAuthor ==
    /\ [](\A t \in Callers :
            pc[t] \in {"narr_begin", "narr_loop", "narr_ins", "emit"} =>
                BookById(loc[t].book).author_id = loc[t].author)
    /\ [][\A t \in Callers :
            /\ (pc[t] = "author_q" /\ pc'[t] = "author_ins") =>
                   AuthorMatches(FirstListed(t)) = {}
            /\ (pc[t] = "author_q" /\ pc'[t] = "book_q") =>
                   AuthorById(loc'[t].author) \in AuthorMatches(FirstListed(t))
            /\ (pc[t] \in ImportLabels /\ authors' # authors) =>
                   /\ pc[t] = "author_ins"
                   /\ \E row \in authors' :
                          authors' = authors \cup {row} /\ row.name = FirstListed(t)
            /\ (pc[t] \in ImportLabels /\ books' # books /\ pc[t] # "book_fill") =>
                   /\ pc[t] = "book_ins"
                   /\ \E row \in books' :
                          books' = books \cup {row} /\ row.author_id = loc[t].author
            /\ (pc[t] # "author_q" /\ pc'[t] = "author_q") => pc[t] = "imp_item"
            /\ (pc[t] # "imp_item" /\ pc'[t] = "imp_item") =>
                   (pc[t] \in {"idle", "emit"}
                    /\ (pc[t] = "emit" => loc'[t].idx = loc[t].idx + 1))
       ]_vars

\* an item with two authors has been imported: its book belongs to the
\* author of the first name, and no author of the second name is stored
C26_Witness ==
    \E t \in Callers :
        /\ pc[t] = "emit"
        /\ Len(loc[t].items[loc[t].idx].authors) = 2
        /\ loc[t].existing = 0
        /\ SameIgnoringCase(AuthorById(loc[t].author).name, FirstListed(t))
        /\ BookById(loc[t].book).author_id = loc[t].author
        /\ \A a \in authors : a.name # Strip(loc[t].items[loc[t].idx].authors[2])

\* ------------------------------------------------------------------ C27
\* the association rows of one book to one narrator
Links(bn, book_id, narrator_id) ==
    {x \in bn : x.book_id = book_id /\ x.narrator_id = narrator_id}

\* C27: narrator attachment is monotonic and duplicate-free: no step of a
\* live import removes an association that existed before it, and no book is
\* ever associated with the same narrator by more than one row
C27_NarratorsMonotonicNoDuplicates ==
    /\ [](\A x \in book_narrators :
             Cardinality(Links(book_narrators, x.book_id, x.narrator_id)) = 1)
    /\ [][\A x \in book_narrators : Links(book_narrators', x.book_id, x.narrator_id) # {}]_vars

\* an item naming the same narrator twice, in a case other than the one the
\* narrator attached to its book before this run is stored in, was processed
C27_Witness ==
    \E t \in Callers :
        /\ pc[t] = "emit"
        /\ ~loc[t].dry
        /\ LET l == loc[t]
               names == l.items[l.idx].narrators
           IN /\ Len(names) = 2
              /\ names[1] = names[2]
              /\ \E n \in narrators :
                    /\ Links(l.start.book_narrators, l.book, n.id) # {}
                    /\ Links(book_narrators, l.book, n.id) # {}
                    /\ n.name # Strip(names[1])
                    /\ SameIgnoringCase(n.name, Strip(names[1]))

\* ------------------------------------------------------------------ C28
\* how many of the first n items of a batch the importer does not skip
RECURSIVE NonSkipped(_, _)
NonSkipped(items, n) ==
    IF n <= 0 THEN 0
    ELSE NonSkipped(items, n - 1) + (IF SkipItem(items[n]) THEN 0 ELSE 1)

\* the outcome o describes the stored book the item of l resolved to
OutcomeOfStored(l, o, st) ==
    LET item == l.items[l.idx]
    IN \E b \in st.books, a \in st.authors :
          /\ b.id = o.book_id
          /\ a.id = b.author_id
          /\ b.title = item.title \/ ILike(b.title, item.title)
          /\ a.name = PrimaryAuthor(l) \/ ILike(a.name, PrimaryAuthor(l))
          /\ o.action = "imported"
          /\ o.title = b.title
          /\ o.abs_cover_url = b.abs_cover_url
          /\ o.author = a.name
          /\ o.narrator_names =
                {n.name : n \in {x \in st.narrators :
                                   x.id \in NarratorsOf(st.book_narrators, b.id)}}

\* C28: a live import holds one outcome for every item it has passed and not
\* skipped, in batch order, and the outcome appended for an item carries the
\* id, stored title and stored override cover of the book the item resolved
\* to, the stored name of its author, and the names of all narrators attached
\* to the book once the item is processed
C28_LiveOutcomes ==
    /\ [](\A t \in Callers :
             ~loc[t].dry => Len(loc[t].results) = NonSkipped(loc[t].items, loc[t].idx - 1))
    /\ [][\A t \in Callers :
             (~loc[t].dry /\ Len(loc'[t].results) = Len(loc[t].results) + 1)
             => /\ SubSeq(loc'[t].results, 1, Len(loc[t].results)) = loc[t].results
                /\ OutcomeOfStored(loc[t], loc'[t].results[Len(loc'[t].results)], Store')]_vars

\* a live run returned two outcomes for a batch of two; the first is for a
\* stored book whose title and override cover are not the incoming ones and
\* which has a narrator from an earlier run and one this item attached
C28_Witness ==
    \E t \in Callers :
        /\ pc[t] = "idle"
        /\ loc[t].resp = "200"
        /\ ~loc[t].dry
        /\ Len(loc[t].items) = 2
        /\ Len(loc[t].results) = 2
        /\ loc[t].results[1].title # loc[t].items[1].title
        /\ loc[t].results[1].abs_cover_url # loc[t].items[1].abs_cover_url
        /\ loc[t].results[1].abs_cover_url # None
        /\ loc[t].items[1].abs_cover_url # None
        /\ \E n \in loc[t].start.narrators :
              n.name \in loc[t].results[1].narrator_names
        /\ \E n \in narrators \ loc[t].start.narrators :
              n.name \in loc[t].results[1].narrator_names

\* ------------------------------------------------------------------ C29
\* the book row b2 is b with at most its override cover set from null
SameButCover(b, b2) ==
    /\ b2 = [b EXCEPT !.abs_cover_url = b2.abs_cover_url]
    /\ b2.abs_cover_url # b.abs_cover_url
          => b.abs_cover_url = None /\ b2.abs_cover_url # None

\* C29: a step of the import changes nothing of the rows that exist but a
\* book's override cover, from null to non-null, and a book's narrator
\* associations, by additions: every author row and narrator row stays as it
\* is, every book row keeps its id, title, external id, publish year, primary
\* cover and author_id, and no row is deleted
C29_ExistingRowsUntouched ==
    [][/\ authors \subseteq authors'
       /\ narrators \subseteq narrators'
       /\ book_narrators \subseteq book_narrators'
       /\ \A b \in books : \E b2 \in books' : b2.id = b.id /\ SameButCover(b, b2)
       /\ Cardinality(books') >= Cardinality(books)]_vars

\* an item resolved to an author and a book that existed before the run,
\* backfilled the book's override cover and attached a narrator to it
C29_Witness ==
    \E t \in Callers :
        /\ pc[t] = "emit"
        /\ ~loc[t].dry
        /\ loc[t].existing = loc[t].book
        /\ \E a \in loc[t].start.authors : a.id = loc[t].author
        /\ \E b \in loc[t].start.books :
              /\ b.id = loc[t].book
              /\ b.abs_cover_url = None
              /\ BookById(b.id).abs_cover_url # None
        /\ \E x \in book_narrators \ loc[t].start.book_narrators :
              x.book_id = loc[t].book

\* ------------------------------------------------------------------ C30
\* the positions of run_sync_now after import_bookshelf_items returned
AfterImport == {"cyc_w1", "cyc_w2", "cyc_ret"}

\* last_result as the except clause leaves it: the error message only
ErrorOnly(r, message) ==
    r.kind = "error" /\ r.error = message /\ r.imported_count = 0 /\ r.timestamp = 0

\* C30: a failed cycle changes only last_result: a cycle aborts before it
\* wrote last_run or last_result, its steps up to the abort leave the run
\* state as it is, and its except clause changes last_result alone, to the
\* error message without imported_count or timestamp, so that last_run,
\* enabled and interval_hours stay as the cycle found them
C30_FailedCycleChangesOnlyLastResult ==
    [][\A t \in Threads :
          /\ (InCycle(t) /\ Moved(t) /\ pc[t] \notin AfterImport \cup {"cyc_exc"})
                => AUTOSYNC_STATE' = AUTOSYNC_STATE
          /\ (InCycle(t) /\ pc[t] \in AfterImport) => pc'[t] # "cyc_exc"
          /\ (InCycle(t) /\ pc[t] = "cyc_exc" /\ Moved(t))
                => /\ loc[t].exc # ""
                   /\ ErrorOnly(AUTOSYNC_STATE'.last_result, loc[t].exc)
                   /\ AUTOSYNC_STATE' =
                        [AUTOSYNC_STATE EXCEPT !.last_result = AUTOSYNC_STATE'.last_result]]_vars

\* a cycle failed after an earlier one had succeeded: last_result is the
\* error and last_run is still the time of the successful cycle
C30_Witness ==
    \E t \in Threads :
        /\ pc[t] = "cyc_ret"
        /\ loc[t].failed
        /\ ErrorOnly(AUTOSYNC_STATE.last_result, loc[t].exc)
        /\ AUTOSYNC_STATE.last_run # 0

\* ------------------------------------------------------------------ C31
\* no thread is inside run_sync_now
NoCycleInFlight == \A t \in Threads : ~InCycle(t)

\* C31: run-state coherence: when no cycle is in flight and last_result is a
\* success record, its timestamp is last_run, and its imported_count is the
\* number of outcomes of the cycle that wrote that last_run (the thread whose
\* stamp it is, its locals being those of that cycle)
C31_RunStateCoherent ==
    (NoCycleInFlight /\ AUTOSYNC_STATE.last_result.kind = "ok")
    => /\ AUTOSYNC_STATE.last_result.timestamp = AUTOSYNC_STATE.last_run
       /\ \A t \in Threads :
             (loc[t].ctx = "cycle" /\ loc[t].stamp = AUTOSYNC_STATE.last_run)
             => AUTOSYNC_STATE.last_result.imported_count = Len(loc[t].results)

\* the half of C31 about the timestamp alone
C31_TimestampIsLastRun ==
    (NoCycleInFlight /\ AUTOSYNC_STATE.last_result.kind = "ok")
    => AUTOSYNC_STATE.last_result.timestamp = AUTOSYNC_STATE.last_run

\* ------------------------------------------------------------------ C32
\* C32: trigger_sync_now returns the result of its own cycle: the value
\* returned is the error record exactly when the caller's cycle failed, with
\* that cycle's message, and is the count and timestamp of that cycle when it
\* succeeded
C32_TriggerReturnsOwnResult ==
    \A c \in Callers :
        (pc[c] = "idle" /\ loc[c].op = "trigger" /\ loc[c].resp = "200")
        => IF loc[c].failed
           THEN loc[c].retval.kind = "error" /\ loc[c].retval.error = loc[c].exc
           ELSE /\ loc[c].retval.kind = "ok"
                /\ loc[c].retval.imported_count = Len(loc[c].results)
                /\ loc[c].retval.timestamp = loc[c].stamp

\* ------------------------------------------------------------------ C33
\* C33: interval_hours is a positive integer in every state, no wait of the
\* worker has a timeout of zero or less, and so no scheduled cycle after the
\* first begins after a wait of zero length
C33_IntervalPositive ==
    /\ AUTOSYNC_STATE.interval_hours > 0
    /\ \A w \in Workers :
          /\ pc[w] = "loop_wait" => loc[w].sleep_seconds > 0
          /\ (InCycle(w) /\ loc[w].cycles >= 2) => loc[w].sleep_seconds > 0

\* the half of C33 about the worker: it never begins a scheduled cycle after
\* the first following a wait whose timeout was zero or less
C33_NoZeroWaitBetweenCycles ==
    \A w \in Workers : (InCycle(w) /\ loc[w].cycles >= 2) => loc[w].sleep_seconds > 0

\* ------------------------------------------------------------------ C34
\* the last request of caller c was a Configure(enabled=true), and it returned
ConfiguredOn(c) ==
    pc[c] = "idle" /\ loc[c].op = "configure" /\ loc[c].enabled /\ loc[c].resp = "200"

\* C34: a scheduled cycle that starts after Configure(enabled=true, interval,
\* credentials) returned runs with the credentials of that call
C34_CyclesUseConfiguredCreds ==
    [][\A w \in Workers, c \in Callers :
          (ConfiguredOn(c) /\ pc[w] = "loop_enabled" /\ pc'[w] = "cyc_fetch")
          => loc'[w].creds = loc[c].creds]_vars

\* C34, as the code has it: a worker is bound to the credentials of the call
\* that launched it, keeps them as long as it lives, whatever Configure calls
\* arrive meanwhile, and runs every scheduled cycle with them
C34_CyclesUseLaunchCreds ==
    [][\A w \in Workers :
          /\ \A c \in Callers :
                (pc[c] = "start_launch" /\ pc'[c] = "idle" /\ ~alive[w] /\ alive'[w])
                => loc'[w].creds = loc[c].creds
          /\ (alive[w] /\ alive'[w]) => loc'[w].creds = loc[w].creds]_vars

\* a Configure(enabled=true) has returned, and the worker, launched by an
\* earlier call with other credentials, is at the start of its second cycle
C34_Witness ==
    \E w \in Workers, c \in Callers :
        /\ ConfiguredOn(c)
        /\ pc[w] = "cyc_fetch"
        /\ loc[w].cycles >= 2
        /\ loc[w].creds # loc[c].creds

\* ------------------------------------------------------------------ C35
\* the raw items of the upstream that normalize_item turns into the last two
\* items of ItemPool
BlankTitleRaw == RawItem(None, <<" ">>, None, None, <<>>, S_ab, None, S_empty)
BlankAuthorRaw == RawItem(None, S_ab, None, None, <<<<" ">>>>, None, None, S_empty)

\* C35: every author and every book in the store has a name, or a title,
\* that is not empty once trimmed, the blank-title and blank-author items
\* being, as normalize_item returns them, among the items imported
C35_NamesNotBlank ==
    /\ {normalize_item(<<"h">>, BlankTitleRaw),
        normalize_item(<<"h">>, BlankAuthorRaw)} \subseteq ItemPool
    /\ \A a \in authors : Strip(a.name) # <<>>
    /\ \A b \in books : b.title # None => Strip(b.title) # <<>>

\* the half of C35 about authors
C35_AuthorNamesNotBlank == \A a \in authors : Strip(a.name) # <<>>

\* normalize_item hands the importer the two items as ItemPool lists them
C35_PoolIsNormalized ==
    /\ normalize_item(<<"h">>, BlankTitleRaw) = Item(<<" ">>, <<S_ab>>, <<>>, None)
    /\ normalize_item(<<"h">>, BlankAuthorRaw) = Item(S_ab, <<S_empty>>, <<>>, None)

\* ------------------------------------------------------------------ C36
\* the record thread t writes when its cycle has succeeded
WritesResult(t) == InCycle(t) /\ pc[t] = "cyc_w2" /\ pc'[t] = "cyc_ret"

\* C36: the imported_count a successful cycle records is the number of items
\* of the batch it fetched that have a title and an author, whether they
\* resolved to books that existed or to new ones, so that two cycles that
\* fetched the same batch record the same count
C36_CountIsNonSkipped ==
    [][\A t \in Threads :
          WritesResult(t)
          => /\ AUTOSYNC_STATE'.last_result.kind = "ok"
             /\ AUTOSYNC_STATE'.last_result.imported_count =
                  NonSkipped(loc[t].items, Len(loc[t].items))
             /\ loc[t].items = library]_vars

\* a successful cycle fetched two items, one of them without author, and
\* recorded a count of one, as the successful cycle before it had done, the
\* item resolving to the book that cycle had created
C36_Witness ==
    \E t \in Threads :
        /\ InCycle(t)
        /\ pc[t] = "cyc_ret"
        /\ ~loc[t].failed
        /\ Len(loc[t].items) = 2
        /\ \E b \in loc[t].start.books : b.id = loc[t].existing
        /\ AUTOSYNC_STATE.last_result.kind = "ok"
        /\ AUTOSYNC_STATE.last_result.imported_count = 1
        /\ AUTOSYNC_STATE.last_result.timestamp = loc[t].stamp
        /\ loc[t].stamp >= 2

\* ------------------------------------------------------------------ C37
\* The stores an uninterrupted live run of import_bookshelf_items can leave,
\* as a function of the store it finds and of its batch: the pipeline of
\* resolve_author, resolve_book and resolve_narrators item by item, every
\* .first() of several rows taken either way. A run that raises leaves none.
LinkTo(S, book_id, narrator_id) ==
    IF \E x \in S.book_narrators : x.book_id = book_id /\ x.narrator_id = narrator_id
    THEN S
    ELSE [S EXCEPT !.book_narrators =
             @ \cup {[book_id |-> book_id, narrator_id |-> narrator_id, n |-> 1]}]

RECURSIVE RunNarrators(_, _, _, _, _)
RunNarrators(S, book_id, names, i, attached) ==
    IF i > Len(names) THEN {S}
    ELSE LET name == Strip(names[i])
             m == {n \in S.narrators : ILike(n.name, name)}
             row == [id |-> Cardinality(S.narrators) + 1, name |-> name]
         IN IF name = <<>> \/ name \in attached
            THEN RunNarrators(S, book_id, names, i + 1, attached)
            ELSE IF m = {}
            THEN IF \A n \in S.narrators : n.name # name
                 THEN RunNarrators(LinkTo([S EXCEPT !.narrators = @ \cup {row}],
                                          book_id, row.id),
                                   book_id, names, i + 1, attached)
                 ELSE {}
            ELSE UNION {RunNarrators(LinkTo(S, book_id, n.id), book_id, names, i + 1,
                                     attached) : n \in m}

\* the item from its resolved book on
RunFromBook(S, book_id, item) ==
    IF ~Truthy(item.narrators) THEN {S}
    ELSE RunNarrators(S, book_id, item.narrators, 1,
                      {n.name : n \in {x \in S.narrators :
                                         x.id \in NarratorsOf(S.book_narrators, book_id)}})

\* the item from its resolved author on
RunFromAuthor(S, author_id, item) ==
    LET m == {b \in S.books : b.author_id = author_id /\ ILike(b.title, item.title)}
        row == [id |-> Cardinality(S.books) + 1, title |-> item.title, ol_id |-> None,
                first_publish_year |-> 0, cover_url |-> None,
                abs_cover_url |-> item.abs_cover_url, author_id |-> author_id]
    IN IF m = {}
       THEN IF \A b \in S.books : ~(b.author_id = author_id /\ b.title = item.title)
            THEN RunFromBook([S EXCEPT !.books = @ \cup {row}], row.id, item)
            ELSE {}
       ELSE UNION {RunFromBook(
                      IF NeedBackfill(item.abs_cover_url, b.abs_cover_url)
                      THEN [S EXCEPT !.books =
                              {IF x.id = b.id
                               THEN [x EXCEPT !.abs_cover_url = item.abs_cover_url]
                               ELSE x : x \in S.books}]
                      ELSE S,
                      b.id, item) : b \in m}

RunItem(S, item) ==
    IF SkipItem(item) THEN {S}
    ELSE LET name == Strip(item.authors[1])
             m == {a \in S.authors : ILike(a.name, name)}
             row == [id |-> Cardinality(S.authors) + 1, name |-> name, ol_id |-> None,
                     image_url |-> None, monitored |-> TRUE]
         IN IF m = {}
            THEN IF OlIdNullable
                 THEN RunFromAuthor([S EXCEPT !.authors = @ \cup {row}], row.id, item)
                 ELSE {}
            ELSE UNION {RunFromAuthor(S, a.id, item) : a \in m}

RECURSIVE RunAll(_, _, _)
RunAll(S, items, i) ==
    IF i > Len(items) THEN {S}
    ELSE UNION {RunAll(S2, items, i + 1) : S2 \in RunItem(S, items[i])}

\* a live run was ended by a store-level failure and its direct repetition
\* over the same batch went through
Recovered == twice.valid /\ twice.first_exc = "OperationalError" /\ twice.exc = ""

====
